---- MODULE Spec2Model ----
(***************************************************************************)
(* Play-by-play -> game-state derivation (game_states.py) and the          *)
(* finalization flags of the update pipeline (database_update_manager.py). *)
(***************************************************************************)
EXTENDS Integers, Sequences, FiniteSets, TLC

(* ------------------------------ bounds -------------------------------- *)
MaxLen == 2
MaxPeriod == 2
MaxMinutes == 1
MaxScore == 1
MaxTime == 6
MaxDay == 2
MaxHours == 4
MaxResults == 2
MaxPredictionRows == 2
MaxInjuryRows == 2

Games == {"g1", "g2"}

\* Seasons are named by the year they start in ("2024-2025" is 2024).
Season == 2024
EarlierSeason == 2022

Predictors == { "Baseline", "Linear" }

(* --------------------------- python values ---------------------------- *)
\* A dict key that may be missing: <<>> is "key absent", <<v>> is "key -> v".
Absent == <<>>
Present(v) == <<v>>
Has(o) == Len(o) > 0
Val(o) == o[1]

\* A decimal string is the sequence of its digits; int() folds it base 10.
RECURSIVE ParseInt(_)
ParseInt(txt) ==
    IF Len(txt) = 1 THEN txt[1]
    ELSE 10 * ParseInt(SubSeq(txt, 1, Len(txt) - 1)) + txt[Len(txt)]

\* An ISO-8601 clock "PT<m>M<s>S" is the pair <<m, s>>.
duration_to_seconds(duration_str) == duration_str[1] * 60 + duration_str[2]

EmptyDict == [g \in {} |-> <<>>]

(* ------------------------- create_game_states ------------------------- *)
SortKeyAscendingClock(x) ==
    << x.period,
       duration_to_seconds(x.clock),
       IF Has(x.orderNumber) THEN Val(x.orderNumber)
       ELSE IF Has(x.actionId) THEN Val(x.actionId) ELSE 0 >>

SortKey(x) ==
    << x.period,
       0 - duration_to_seconds(x.clock),
       IF Has(x.orderNumber) THEN Val(x.orderNumber)
       ELSE IF Has(x.actionId) THEN Val(x.actionId) ELSE 0 >>

KeyLess(a, b) ==
    \/ a[1] < b[1]
    \/ a[1] = b[1] /\ a[2] < b[2]
    \/ a[1] = b[1] /\ a[2] = b[2] /\ a[3] < b[3]

\* sorted() is stable: an element goes after every element whose key is not
\* greater than its own.
RECURSIVE InsertSorted(_, _)
InsertSorted(s, x) ==
    IF s = <<>> THEN <<x>>
    ELSE IF KeyLess(SortKey(x), SortKey(Head(s))) THEN <<x>> \o s
    ELSE <<Head(s)>> \o InsertSorted(Tail(s), x)

RECURSIVE SortedFrom(_, _)
SortedFrom(logs, acc) ==
    IF logs = <<>> THEN acc
    ELSE SortedFrom(Tail(logs), InsertSorted(acc, Head(logs)))

sorted(logs) == SortedFrom(logs, <<>>)

HasDescriptionKeepAll(logs) == logs

\* [log for log in logs if "description" in log]
HasDescription(logs) == SelectSeq(logs, LAMBDA log : log.description)

IsGameEnd(row) == row.actionType = "game" /\ row.subType = "end"

IsFinalAnyGameEnd(row, i, n) == row.actionType = "game" /\ row.subType = "end"

IsFinal(row, i, n) == i = n /\ row.actionType = "game" /\ row.subType = "end"

GameState(play_id, row, home_score, away_score, is_final) ==
    [ play_id        |-> play_id,
      clock          |-> row.clock,
      period         |-> row.period,
      home_score     |-> home_score,
      away_score     |-> away_score,
      total          |-> home_score + away_score,
      home_margin    |-> home_score - away_score,
      is_final_state |-> is_final ]

\* int(row.get("scoreHome", 0))
LiveScore(o) == IF Has(o) THEN ParseInt(Val(o)) ELSE 0

LiveStates(logs) ==
    [ i \in 1..Len(logs) |->
        GameState(Val(logs[i].orderNumber), logs[i],
                  LiveScore(logs[i].scoreHome), LiveScore(logs[i].scoreAway),
                  IsFinal(logs[i], i, Len(logs))) ]

\* if row.get("scoreHome"): current_home_score = int(row["scoreHome"])
Truthy(o) == Has(o) /\ Val(o) # <<>>

StatsScoreNoCarry(o, current) == IF Truthy(o) THEN ParseInt(Val(o)) ELSE 0

StatsScore(o, current) == IF Truthy(o) THEN ParseInt(Val(o)) ELSE current

RECURSIVE StatsStates(_, _, _, _)
StatsStates(logs, i, current_home_score, current_away_score) ==
    IF i > Len(logs) THEN <<>>
    ELSE LET h == StatsScore(logs[i].scoreHome, current_home_score)
             a == StatsScore(logs[i].scoreAway, current_away_score)
         IN  << GameState(Val(logs[i].actionId), logs[i], h, a,
                          IsFinal(logs[i], i, Len(logs))) >>
             \o StatsStates(logs, i + 1, h, a)

GameStatesOf(game_info) ==
    IF game_info.pbp_logs = <<>> THEN <<>>
    ELSE LET logs == HasDescription(sorted(game_info.pbp_logs))
         IN  IF logs = <<>> THEN <<>>
             ELSE IF Has(logs[1].orderNumber) THEN LiveStates(logs)
             ELSE StatsStates(logs, 1, 0, 0)

\* duration_to_seconds raises on a clock that is not "PT<m>M<s>S"; the empty
\* text stands for every such clock.
ClockRaises(row) == Len(row.clock) # 2

\* row["orderNumber"] or row["actionId"] raises KeyError on a row without the
\* ordering field of the shape the first row selected.
OrderingFieldRaises(logs) ==
    /\ logs # <<>>
    /\ IF Has(logs[1].orderNumber)
       THEN \E i \in 1..Len(logs) : ~Has(logs[i].orderNumber)
       ELSE \E i \in 1..Len(logs) : ~Has(logs[i].actionId)

\* The loop body of one game raises: in the sort key, or in the play_id.
Raises(game_info) ==
    /\ game_info.pbp_logs # <<>>
    /\ \/ \E i \in 1..Len(game_info.pbp_logs) : ClockRaises(game_info.pbp_logs[i])
       \/ OrderingFieldRaises(HasDescription(sorted(game_info.pbp_logs)))

\* except Exception: return {}
create_game_states(info) ==
    IF \E g \in DOMAIN info : Raises(info[g]) THEN EmptyDict
    ELSE [ g \in DOMAIN info |-> GameStatesOf(info[g]) ]

(* --------------------------- save_game_states ------------------------- *)
\* The row written for one state; sqlite stores the Python bool as 0 or 1.
StateRow(g, state) ==
    [ game_id        |-> g,
      play_id        |-> state.play_id,
      clock          |-> state.clock,
      period         |-> state.period,
      home_score     |-> state.home_score,
      away_score     |-> state.away_score,
      total          |-> state.total,
      home_margin    |-> state.home_margin,
      is_final_state |-> IF state.is_final_state THEN 1 ELSE 0 ]

StateRows(g, states) == [ i \in 1..Len(states) |-> StateRow(g, states[i]) ]

\* DELETE FROM GameStates WHERE game_id = ?
DeleteGameStatesKeep(table, g) == table

DeleteGameStates(table, g) == [ table EXCEPT ![g] = <<>> ]

\* INSERT INTO GameStates ... (executemany)
InsertGameStates(table, g, rows) == [ table EXCEPT ![g] = @ \o rows ]

\* The games of the argument that are written; an empty list is skipped.
SavedGames(arg) == { g \in DOMAIN arg : arg[g] # <<>> }

\* conn.rollback(): the tables are as they were at BEGIN.
RollbackKeepsWrites(at_begin, at_error) == at_error

Rollback(at_begin, at_error) == at_begin

\* The per-game transactions; the write of a game of `failing` raises after
\* its DELETE.
RECURSIVE SaveRows(_, _, _, _)
SaveRows(table, arg, todo, failing) ==
    IF todo = {} THEN table
    ELSE LET g == CHOOSE x \in todo : TRUE
             deleted == DeleteGameStates(table, g)
         IN  SaveRows(IF g \in failing
                      THEN Rollback(table, deleted)
                      ELSE InsertGameStates(deleted, g, StateRows(g, arg[g])),
                      arg, todo \ {g}, failing)

save_game_states_rows(table, arg, failing) ==
    SaveRows(table, arg, SavedGames(arg), failing)

\* UPDATE Games SET gamestates_last_created_at = datetime('now')
save_game_states_stamp(stamps, arg, failing, t) ==
    [ g \in DOMAIN stamps |->
        IF g \in SavedGames(arg) \ failing THEN Present(t) ELSE stamps[g] ]

save_game_states_flagging(flags, arg, failing) ==
    [ g \in DOMAIN flags |->
        IF g \in SavedGames(arg)
              /\ \E i \in 1..Len(arg[g]) : arg[g][i].is_final_state
        THEN 1 ELSE flags[g] ]

\* save_game_states executes no statement on game_data_finalized.
save_game_states_flags(flags, arg, failing) == flags

\* overall_success
save_game_states_result(arg, failing) == SavedGames(arg) \cap failing = {}

(* ------------------------ database_update_manager --------------------- *)
RefetchMinutes == 5

HasFinalRow(rows) == \E i \in 1..Len(rows) : rows[i].is_final_state = 1

\* get_games_needing_pbp_update
NeedsPbpUpdateAtFive(st, flag, fetched_at, logs, t) ==
    \/ st = 2 /\ (~Has(fetched_at) \/ Val(fetched_at) <= t - RefetchMinutes)
    \/ st = 3 /\ flag = 0 /\ Has(fetched_at) /\ Val(fetched_at) <= t - RefetchMinutes
    \/ st = 3 /\ flag = 0 /\ logs = <<>>

NeedsPbpUpdate(st, flag, fetched_at, logs, t) ==
    \/ st = 2 /\ (~Has(fetched_at) \/ Val(fetched_at) < t - RefetchMinutes)
    \/ st = 3 /\ flag = 0 /\ Has(fetched_at) /\ Val(fetched_at) < t - RefetchMinutes
    \/ st = 3 /\ flag = 0 /\ logs = <<>>

NeedsGameStateUpdateOnce(st, logs, rows, fetched_at, created_at) ==
    st \in {2, 3} /\ logs # <<>> /\ rows = <<>>

\* get_games_needing_game_state_update
NeedsGameStateUpdate(st, logs, rows, fetched_at, created_at) ==
    /\ st \in {2, 3}
    /\ logs # <<>>
    /\ \/ rows = <<>>
       \/ Has(created_at) /\ Has(fetched_at) /\ Val(fetched_at) > Val(created_at)
       \/ st = 3 /\ ~HasFinalRow(rows)

\* The check of _mark_pbp_games_finalized for one game.
PbpFinalizedAlways(logs, rows) == TRUE

PbpFinalized(logs, rows) == Len(logs) > 0 /\ HasFinalRow(rows)

mark_pbp_games_listed_only(flags, game_ids, logtab, statetab) ==
    [ g \in DOMAIN flags |->
        IF g \in game_ids /\ PbpFinalized(logtab[g], statetab[g]) THEN 1 ELSE 0 ]

mark_pbp_games_finalized(flags, game_ids, logtab, statetab) ==
    [ g \in DOMAIN flags |->
        IF g \in game_ids /\ PbpFinalized(logtab[g], statetab[g]) THEN 1 ELSE flags[g] ]

\* The aggregates _mark_boxscore_games_finalized reads for one game: the
\* PlayerBox and TeamBox row counts and the per-team sums of recorded minutes.
MinPlayerRows == 16
TeamRows == 2
MinTeamMinutes == 239

BoxFinalizedIgnoringStatus(b, st) ==
    /\ ~(b.players < MinPlayerRows \/ b.teams # TeamRows)
    /\ Len(b.minutes) = 2
    /\ \A i \in 1..Len(b.minutes) : b.minutes[i] >= MinTeamMinutes

BoxFinalized(b, st) ==
    /\ ~(b.players < MinPlayerRows \/ b.teams # TeamRows \/ st # 3)
    /\ Len(b.minutes) = 2
    /\ \A i \in 1..Len(b.minutes) : b.minutes[i] >= MinTeamMinutes

mark_boxscore_games_by_status(flags, game_ids, boxtab, sttab) ==
    [ g \in DOMAIN flags |-> IF g \in game_ids /\ sttab[g] = 3 THEN 1 ELSE flags[g] ]

mark_boxscore_games_finalized(flags, game_ids, boxtab, sttab) ==
    [ g \in DOMAIN flags |->
        IF g \in game_ids /\ BoxFinalized(boxtab[g], sttab[g]) THEN 1 ELSE flags[g] ]

\* get_games_needing_boxscores, with and without the timestamp column
NeedsBoxscoresByAgeOnly(st, flag, fetched_at, b, t, has_column) ==
    IF has_column
    THEN \/ st = 2 /\ (~Has(fetched_at) \/ Val(fetched_at) < t - RefetchMinutes)
         \/ st = 3 /\ flag = 0 /\ (~Has(fetched_at) \/ Val(fetched_at) < t - RefetchMinutes)
    ELSE st \in {2, 3} /\ flag = 0 /\ b.players = 0

NeedsBoxscores(st, flag, fetched_at, b, t, has_column) ==
    IF has_column
    THEN \/ st = 2 /\ (~Has(fetched_at) \/ Val(fetched_at) < t - RefetchMinutes)
         \/ st = 3 /\ flag = 0 /\ Has(fetched_at) /\ Val(fetched_at) < t - RefetchMinutes
         \/ st = 3 /\ flag = 0 /\ b.players = 0
    ELSE st \in {2, 3} /\ flag = 0 /\ b.players = 0

\* The schedule: g1 is played before g2 and the home team of both is the same.
home_team(g) == "BOS"
away_team(g) == IF g = "g1" THEN "NYK" ELSE "LAL"
date_time_utc(g) == IF g = "g1" THEN 1 ELSE 2

SharesTeam(g2, g1) ==
    \/ home_team(g2) = home_team(g1) \/ away_team(g2) = home_team(g1)
    \/ home_team(g2) = away_team(g1) \/ away_team(g2) = away_team(g1)

\* get_games_with_incomplete_pre_game_data
NeedsPreGameData(g, sttab, pre, gdf, bdf) ==
    \/ pre[g] = 0 /\ gdf[g] = 1 /\ sttab[g] \in {2, 3}
    \/ /\ pre[g] = 0
       /\ sttab[g] = 1
       /\ ~\E g2 \in DOMAIN sttab :
              /\ date_time_utc(g2) < date_time_utc(g)
              /\ SharesTeam(g2, g)
              /\ (gdf[g2] = 0 \/ bdf[g2] = 0)

\* prior_states: the earlier completed games of a team whose final state
\* could not be loaded.
missing_prior_states(g, team, sttab, statetab) ==
    { p \in DOMAIN sttab :
        /\ date_time_utc(p) < date_time_utc(g)
        /\ team \in { home_team(p), away_team(p) }
        /\ sttab[p] = 3
        /\ ~HasFinalRow(statetab[p]) }

PreGameFinalizedNeedsPrior(g, sttab, statetab) ==
    IF /\ \E p \in DOMAIN sttab : date_time_utc(p) < date_time_utc(g) /\ SharesTeam(p, g)
       /\ missing_prior_states(g, home_team(g), sttab, statetab) = {}
       /\ missing_prior_states(g, away_team(g), sttab, statetab) = {}
    THEN 1 ELSE 0

PreGameFinalized(g, sttab, statetab) ==
    IF /\ missing_prior_states(g, home_team(g), sttab, statetab) = {}
       /\ missing_prior_states(g, away_team(g), sttab, statetab) = {}
    THEN 1 ELSE 0

update_pre_game_flags(pre, game_ids, sttab, statetab) ==
    [ g \in DOMAIN pre |->
        IF g \in game_ids THEN PreGameFinalized(g, sttab, statetab) ELSE pre[g] ]

\* with sqlite3.connect(db_path) as conn: what was written inside the block
\* is committed when the block ends and rolled back when it raises.
ConnectionExitCommits(committed, pending, raised) == pending

ConnectionExit(committed, pending, raised) == IF raised THEN committed ELSE pending

\* The games of a chunk (ORDER BY date_time_utc) that a marking loop handles
\* before the game whose verification query raises.
ReachedBefore(game_ids, fail_at) ==
    IF Has(fail_at)
    THEN { g \in game_ids : date_time_utc(g) < date_time_utc(Val(fail_at)) }
    ELSE game_ids

\* _mark_pbp_games_finalized, whose query raises for the game fail_at
mark_pbp_games_finalized_in_tx(flags, game_ids, logtab, statetab, fail_at) ==
    ConnectionExit(flags,
                   mark_pbp_games_finalized(flags, ReachedBefore(game_ids, fail_at),
                                            logtab, statetab),
                   Has(fail_at))

\* _mark_boxscore_games_finalized, whose query raises for the game fail_at
mark_boxscore_games_finalized_in_tx(flags, game_ids, boxtab, sttab, fail_at) ==
    ConnectionExit(flags,
                   mark_boxscore_games_finalized(flags, ReachedBefore(game_ids, fail_at),
                                                 boxtab, sttab),
                   Has(fail_at))

\* LENGTH(f.feature_set): the JSON text of a set without keys is '{}'; each
\* key adds its quoted name, a colon and a value, and a comma after the first.
feature_set_length(keys) == IF keys = 0 THEN 2 ELSE 2 + 5 * keys + (keys - 1)

games_for_prediction_again(se, predictor, seasons, pre, feat, preds) ==
    { g \in DOMAIN pre :
        /\ seasons[g] = se
        /\ pre[g] = 1
        /\ Has(feat[g])
        /\ feature_set_length(Val(feat[g])) > 10 }

\* get_games_for_prediction_update; no game of the model is postponed.
get_games_for_prediction_update(se, predictor, seasons, pre, feat, preds) ==
    { g \in DOMAIN pre :
        /\ seasons[g] = se
        /\ pre[g] = 1
        /\ Has(feat[g])
        /\ feature_set_length(Val(feat[g])) > 10
        /\ preds[g][predictor] = 0 }

\* make_pre_game_predictions(game_ids, predictor, save=True): one Predictions
\* row of the predictor for every game of the list.
save_predictions(preds, game_ids, predictor) ==
    [ g \in DOMAIN preds |->
        IF g \in game_ids THEN [ preds[g] EXCEPT ![predictor] = @ + 1 ] ELSE preds[g] ]

(* ------------------------------ validators --------------------------- *)
\* A ValidationIssue: its check_id, severity and count.
Issue(check_id, severity, count) ==
    [ check_id |-> check_id, severity |-> severity, count |-> count ]

\* result.issues: a check appends its issue when it found something.
Issues(candidates) == { issue \in candidates : issue.count > 0 }

\* BoxscoresValidator.validate on the row counts and minute sums of the games;
\* the checks of per-team player counts and of NULL fields read columns that
\* the aggregates do not hold.
BoxscoresValidator_validate(game_ids, sttab, boxtab) ==
    LET final == { g \in game_ids : sttab[g] = 3 }
        missing_player_records == { g \in final : boxtab[g].players = 0 }
        missing_team_records == { g \in final : boxtab[g].teams = 0 }
        invalid_team_counts ==
            { g \in final : boxtab[g].teams > 0 /\ boxtab[g].teams # 2 }
        low_minutes ==
            { << g, i >> \in final \X (1..2) :
                i <= Len(boxtab[g].minutes) /\ boxtab[g].minutes[i] < 239 }
    IN  Issues({ Issue("MISSING_PLAYER_BOX", "critical", Cardinality(missing_player_records)),
                 Issue("MISSING_TEAM_BOX", "critical", Cardinality(missing_team_records)),
                 Issue("INVALID_TEAM_COUNT", "critical", Cardinality(invalid_team_counts)),
                 Issue("LOW_MINUTES", "warning", Cardinality(low_minutes)) })

\* FeaturesValidator.validate; a feature set is the number of its keys, and
\* the text of a set without keys is '{}'.
FeaturesValidator_validate(game_ids, sttab, gdf, pre, feat) ==
    LET missing_features ==
            { g \in game_ids :
                sttab[g] = 3 /\ gdf[g] = 1 /\ pre[g] = 1 /\ ~Has(feat[g]) }
        empty_features ==
            { g \in game_ids : Has(feat[g]) /\ pre[g] = 1 /\ Val(feat[g]) = 0 }
        inconsistent_counts ==
            { g \in game_ids : Has(feat[g]) /\ Val(feat[g]) > 0 /\ Val(feat[g]) # 43 }
    IN  Issues({ Issue("MISSING_FEATURES", "warning", Cardinality(missing_features)),
                 Issue("EMPTY_FEATURES", "info", Cardinality(empty_features)),
                 Issue("INCONSISTENT_FEATURE_COUNT", "warning",
                       Cardinality(inconsistent_counts)) })

\* PbP_Logs.play_id: the ordering field of the stored event.
PlayId(row) == IF Has(row.orderNumber) THEN Val(row.orderNumber) ELSE Val(row.actionId)

duplicate_play_rows(game_ids, logtab) ==
    { << g, i >> \in game_ids \X (1..MaxLen + 1) :
        /\ i <= Len(logtab[g])
        /\ \E j \in 1..Len(logtab[g]) :
              j # i /\ PlayId(logtab[g][j]) = PlayId(logtab[g][i]) }

\* SELECT game_id, play_id, COUNT(*) ... GROUP BY game_id, play_id
\* HAVING dup_count > 1: one row per duplicated (game_id, play_id).
duplicate_plays(game_ids, logtab) ==
    { << g, p >> \in game_ids \X (1..MaxLen + 1) :
        Cardinality({ i \in 1..Len(logtab[g]) : PlayId(logtab[g][i]) = p }) > 1 }

\* PbPValidator.validate
PbPValidator_validate(game_ids, sttab, logtab, statetab, stamps, t) ==
    LET missing_pbp == { g \in game_ids : sttab[g] = 3 /\ logtab[g] = <<>> }
        low_play_count ==
            { g \in game_ids :
                sttab[g] = 3 /\ logtab[g] # <<>> /\ Len(logtab[g]) < 200 }
        stale_inprogress ==
            { g \in game_ids :
                sttab[g] = 2 /\ Has(stamps[g]) /\ Val(stamps[g]) < t - 20 }
        no_final_state ==
            { g \in game_ids : logtab[g] # <<>> /\ ~HasFinalRow(statetab[g]) }
        duplicates == duplicate_plays(game_ids, logtab)
    IN  Issues({ Issue("MISSING_PBP", "critical", Cardinality(missing_pbp)),
                 Issue("LOW_PLAY_COUNT", "warning", Cardinality(low_play_count)),
                 Issue("STALE_INPROGRESS_PBP", "warning", Cardinality(stale_inprogress)),
                 Issue("NO_FINAL_STATE", "warning", Cardinality(no_final_state)),
                 Issue("DUPLICATE_PLAYS", "critical", Cardinality(duplicates)) })

\* GameStatesValidator.validate
GameStatesValidator_validate(game_ids, sttab, logtab, statetab) ==
    LET final == { g \in game_ids : sttab[g] = 3 }
        missing_states == { g \in final : logtab[g] # <<>> /\ statetab[g] = <<>> }
        no_final_marker ==
            { g \in final : statetab[g] # <<>> /\ ~HasFinalRow(statetab[g]) }
        low_state_count ==
            { g \in final : statetab[g] # <<>> /\ Len(statetab[g]) < 100 }
        invalid_scores ==
            { << g, i >> \in game_ids \X (1..MaxLen + 1) :
                /\ i <= Len(statetab[g])
                /\ \/ statetab[g][i].home_score < 0
                   \/ statetab[g][i].away_score < 0
                   \/ statetab[g][i].home_score > 200
                   \/ statetab[g][i].away_score > 200 }
        duplicates ==
            { << g, p >> \in game_ids \X (1..MaxLen + 1) :
                Cardinality({ i \in 1..Len(statetab[g]) :
                                statetab[g][i].play_id = p }) > 1 }
    IN  Issues({ Issue("MISSING_GAME_STATES", "critical", Cardinality(missing_states)),
                 Issue("NO_FINAL_STATE", "warning", Cardinality(no_final_marker)),
                 Issue("LOW_STATE_COUNT", "warning", Cardinality(low_state_count)),
                 Issue("INVALID_SCORES", "critical", Cardinality(invalid_scores)),
                 Issue("DUPLICATE_STATES", "warning", Cardinality(duplicates)) })

validate_fixing(flags, game_ids) ==
    [ g \in DOMAIN flags |-> IF g \in game_ids THEN 0 ELSE flags[g] ]

\* The flags after validate(): every statement it executes is a SELECT, and
\* the issues it marks fixable are reported, not fixed.
validate_reading(flags, game_ids) == flags

(* ----------------------------- health check -------------------------- *)
CheckStatuses == { "pass", "warn", "critical", "skip" }

CheckResult(check_name, check_status) ==
    [ check_name |-> check_name, status |-> check_status ]

\* HealthReport.passed, .warnings, .critical, .skipped
CountOf(results, check_status) ==
    Cardinality({ i \in 1..Len(results) : results[i].status = check_status })

exit_code_warning_first(results) ==
    IF CountOf(results, "warn") > 0 THEN 1
    ELSE IF CountOf(results, "critical") > 0 THEN 2
    ELSE 0

\* HealthReport.exit_code
HealthReport_exit_code(results) ==
    IF CountOf(results, "critical") > 0 THEN 2
    ELSE IF CountOf(results, "warn") > 0 THEN 1
    ELSE 0

PLAYERBOX_START_SEASON == 2023

\* PASS when the query counts no violation, otherwise the status of the check.
FlagCheck(check_name, violations, check_status) ==
    CheckResult(check_name, IF violations = {} THEN "pass" ELSE check_status)

games_without_pbp(se, seasons, gdf, logtab) ==
    { g \in DOMAIN seasons : seasons[g] = se /\ logtab[g] = <<>> }

\* game_data_finalized = 1 but no PbP_Logs row
flagged_without_pbp(se, seasons, gdf, logtab) ==
    { g \in DOMAIN seasons : seasons[g] = se /\ gdf[g] = 1 /\ logtab[g] = <<>> }

\* SeasonHealthChecker._check_flag_consistency: the results it adds
check_flag_consistency(se, seasons, sttab, gdf, bdf, pre, logtab, statetab, boxtab, feat) ==
    LET in_season == { g \in DOMAIN seasons : seasons[g] = se }
        no_final_state == { g \in in_season : gdf[g] = 1 /\ ~HasFinalRow(statetab[g]) }
        no_playerbox == { g \in in_season : bdf[g] = 1 /\ boxtab[g].players = 0 }
        no_features == { g \in in_season : pre[g] = 1 /\ ~Has(feat[g]) }
        dependency == { g \in in_season : pre[g] = 1 /\ gdf[g] = 0 /\ sttab[g] = 3 }
    IN  << FlagCheck("game_data_has_pbp",
                     flagged_without_pbp(se, seasons, gdf, logtab), "critical"),
           FlagCheck("game_data_has_final_state", no_final_state, "critical") >>
        \o (IF se >= PLAYERBOX_START_SEASON
            THEN << FlagCheck("boxscore_has_playerbox", no_playerbox, "critical") >>
            ELSE << >>)
        \o << FlagCheck("pregame_has_features", no_features, "critical"),
              FlagCheck("flag_dependency_pregame", dependency, "warn") >>

(* -------------------------- database evaluator ----------------------- *)
RowsToResetAnySeason(se, seasons, flags, missing) ==
    { g \in DOMAIN flags : flags[g] = 1 /\ g \in missing }

\* The rows matched by UPDATE Games SET <flag> = 0 WHERE season = ? AND
\* <flag> = 1 AND NOT EXISTS (<backing row>); their number is cursor.rowcount.
RowsToReset(se, seasons, flags, missing) ==
    { g \in DOMAIN flags : seasons[g] = se /\ flags[g] = 1 /\ g \in missing }

ResetFlags(flags, rows) == [ g \in DOMAIN flags |-> IF g \in rows THEN 0 ELSE flags[g] ]

\* INT-001 then INT-002: game_data_finalized after the two updates, and the
\* sum of their row counts
fix_game_data_flags(se, seasons, gdf, logtab, statetab) ==
    LET no_pbp == { g \in DOMAIN gdf : logtab[g] = <<>> }
        no_final == { g \in DOMAIN gdf : ~HasFinalRow(statetab[g]) }
        int001 == RowsToReset(se, seasons, gdf, no_pbp)
        after001 == ResetFlags(gdf, int001)
        int002 == RowsToReset(se, seasons, after001, no_final)
    IN  [ flags |-> ResetFlags(after001, int002),
          fixed |-> Cardinality(int001) + Cardinality(int002) ]

\* FLAG-001: pre_game_data_finalized after the update, and its row count
fix_pre_game_flags(se, seasons, pre, feat) ==
    LET no_features == { g \in DOMAIN pre : ~Has(feat[g]) }
        flag001 == RowsToReset(se, seasons, pre, no_features)
    IN  [ flags |-> ResetFlags(pre, flag001), fixed |-> Cardinality(flag001) ]

(* ------------------------------- state -------------------------------- *)
VARIABLES
    games_info,                  \* argument of the last create_game_states call
    game_states,                 \* its result, the argument of save_game_states
    status,                      \* Games.status: 1 Not Started, 2 In Progress, 3 Final
    pbp,                         \* PbP_Logs rows per game
    gs,                          \* GameStates rows per game
    game_data_finalized,         \* Games.game_data_finalized
    pbp_last_fetched_at,         \* Games.pbp_last_fetched_at
    gamestates_last_created_at,  \* Games.gamestates_last_created_at
    box,                         \* PlayerBox and TeamBox aggregates per game
    boxscore_data_finalized,     \* Games.boxscore_data_finalized
    boxscore_last_fetched_at,    \* Games.boxscore_last_fetched_at
    pre_game_data_finalized,     \* Games.pre_game_data_finalized
    now,                         \* datetime('now'), in minutes
    has_timestamp_column,        \* Games has the column boxscore_last_fetched_at
    features,                    \* Features.feature_set per game
    write_failed,                \* games whose write raised in the last save_game_states
    save_result,                 \* return value of the last save_game_states
    mark_failed,                 \* marking step and game whose verification query raised
    pbp_selected,                \* return value of get_games_needing_pbp_update
    box_selected,                \* return value of get_games_needing_boxscores
    injury_cache,                \* InjuryCache.last_fetched_at per report date, in hours
    injury_reports,              \* report dates with NBA_Official rows in InjuryReports
    today,                       \* today's date in Eastern time
    now_utc,                     \* get_utc_now(), in hours
    dates_fetched,               \* dates fetched by the last injury update pass
    season,                      \* Games.season, the year in which the season starts
    predictions,                 \* Predictions rows per game and predictor
    validated,                   \* validator, batch and issues of the last validate()
    fixed,                       \* return value of the last fix_issues
    report,                      \* HealthReport.results
    exit_code,                   \* HealthReport.exit_code as last read
    loop,                        \* locals of create_game_states inside its loop over one game
    boxscore_result,             \* return value of get_boxscores, argument of save_boxscores
    box_failed,                  \* game at which the last save_boxscores raised
    pool,                        \* futures and results dict of a running get_boxscores
    games_table,                 \* Games rows read by the pre-game selection
    pre_selected,                \* return value of get_games_with_incomplete_pre_game_data
    injury_table                 \* InjuryReports rows by id

pbpvars == << pbp, pbp_last_fetched_at >>
gsvars == << games_info, game_states, gs, gamestates_last_created_at, game_data_finalized >>
boxvars == << box, boxscore_data_finalized, boxscore_last_fetched_at, has_timestamp_column >>
faultvars == << write_failed, save_result, mark_failed >>
selvars == << pbp_selected, box_selected >>
injvars == << injury_cache, injury_reports, today, now_utc, dates_fetched >>
predvars == << season, predictions >>
repvars == << validated, fixed, report, exit_code >>
runvars == << loop, boxscore_result, box_failed, pool >>
queryvars == << games_table, pre_selected, injury_table >>
sidevars == << faultvars, selvars, injvars, predvars, repvars, runvars, queryvars >>

vars == << status, pbpvars, gsvars, boxvars, pre_game_data_finalized, now,
           features, sidevars >>

dbvars == << status, pbpvars, gs, gamestates_last_created_at, game_data_finalized,
             boxvars, pre_game_data_finalized, now, features, sidevars >>

NoBox == [ players |-> 0, teams |-> 0, minutes |-> <<>> ]

EmptyDatabase ==
    /\ pbp = [ g \in Games |-> <<>> ]
    /\ gs = [ g \in Games |-> <<>> ]
    /\ game_data_finalized = [ g \in Games |-> 0 ]
    /\ pbp_last_fetched_at = [ g \in Games |-> Absent ]
    /\ gamestates_last_created_at = [ g \in Games |-> Absent ]
    /\ box = [ g \in Games |-> NoBox ]
    /\ boxscore_data_finalized = [ g \in Games |-> 0 ]
    /\ boxscore_last_fetched_at = [ g \in Games |-> Absent ]
    /\ pre_game_data_finalized = [ g \in Games |-> 0 ]
    /\ now = 0
    /\ has_timestamp_column = FALSE
    /\ features = [ g \in Games |-> Absent ]

\* No save, marking step, selection, validation, fix or health check has run
\* yet.
NoResultYet ==
    /\ write_failed = {}
    /\ save_result = Absent
    /\ mark_failed = Absent
    /\ pbp_selected = Absent
    /\ box_selected = Absent
    /\ validated = Absent
    /\ fixed = Absent
    /\ report = <<>>
    /\ exit_code = Absent
    /\ loop = Absent
    /\ boxscore_result = Absent
    /\ box_failed = Absent
    /\ pool = Absent

\* No table of the two migrations and selections modelled on their own is
\* loaded.
NoQueryYet ==
    /\ games_table = Absent
    /\ pre_selected = Absent
    /\ injury_table = Absent

NoPredictions == [ g \in Games |-> [ p \in Predictors |-> 0 ] ]

\* Both games belong to the season the pipeline runs for, and no result or
\* prediction exists yet.
NoCallYet ==
    /\ NoResultYet
    /\ NoQueryYet
    /\ season = [ g \in Games |-> Season ]
    /\ predictions = NoPredictions

Days == 1..MaxDay

\* The injury tables before the first injury update pass.
NoInjuryData ==
    /\ injury_cache = [ d \in Days |-> Absent ]
    /\ injury_reports = {}
    /\ today = 1
    /\ now_utc = 0
    /\ dates_fetched = Absent

(* ----------------------- inputs of the reducer ------------------------ *)
ScoreTexts == { <<d>> : d \in 0..MaxScore }
ScorePairs == { <<Absent, Absent>> }
              \cup { <<Present(h), Present(a)>> : h \in ScoreTexts, a \in ScoreTexts }
Clocks == { <<m, 0>> : m \in 0..MaxMinutes }
Actions == { <<"game", "end">>, <<"2pt", "made">> }

Event(shape, seq, period, clock, desc, act, sc) ==
    [ orderNumber |-> IF shape = "live" THEN Present(seq) ELSE Absent,
      actionId    |-> IF shape = "stats" THEN Present(seq) ELSE Absent,
      period      |-> period,
      clock       |-> clock,
      description |-> desc,
      actionType  |-> act[1],
      subType     |-> act[2],
      scoreHome   |-> sc[1],
      scoreAway   |-> sc[2] ]

\* An event without a description has no action and no score.
EventBodies ==
    { <<p, c, TRUE, act, sc>> :
        p \in 1..MaxPeriod, c \in Clocks, act \in Actions, sc \in ScorePairs }
    \cup { <<p, c, FALSE, <<"", "">>, <<Absent, Absent>> >> :
        p \in 1..MaxPeriod, c \in Clocks }

\* The event lists of one shape; the sequence number is the arrival position.
EventLists(shape) ==
    UNION { { [ i \in 1..n |->
                  Event(shape, i, b[i][1], b[i][2], b[i][3], b[i][4], b[i][5]) ] :
              b \in [1..n -> EventBodies] } : n \in 0..MaxLen }

InitCGS ==
    /\ \E shape \in {"live", "stats"} : \E logs \in EventLists(shape) :
          games_info = [ g \in {"g1"} |-> [ pbp_logs |-> logs ] ]
    /\ game_states = EmptyDict
    /\ status = [ g \in Games |-> 3 ]
    /\ EmptyDatabase
    /\ NoCallYet
    /\ NoInjuryData

CreateGameStatesCall ==
    /\ game_states = EmptyDict
    /\ game_states' = create_game_states(games_info)
    /\ UNCHANGED << games_info, dbvars >>

NextCGS == CreateGameStatesCall

SpecCGS == InitCGS /\ [][NextCGS]_vars


(* --------------------- the reducer on several games ------------------- *)
\* Events that differ in period, clock and description.
OrderBodies ==
    { << p, c, d, IF d THEN <<"2pt", "made">> ELSE <<"", "">>,
         IF d THEN << Present(<<1>>), Present(<<0>>) >> ELSE << Absent, Absent >> >> :
        p \in 1..MaxPeriod, c \in Clocks, d \in BOOLEAN }

OrderLists(shape) ==
    UNION { { [ i \in 1..n |->
                  Event(shape, i, b[i][1], b[i][2], b[i][3], b[i][4], b[i][5]) ] :
              b \in [1..n -> OrderBodies] } : n \in 0..MaxLen }

\* The second game of the call: no event, one event without a description,
\* or one scoring play.
OtherLists ==
    { <<>>,
      << Event("live", 1, 1, <<0, 0>>, FALSE, <<"", "">>, << Absent, Absent >>) >>,
      << Event("live", 1, 1, <<0, 0>>, TRUE, <<"2pt", "made">>,
               << Present(<<1>>), Present(<<0>>) >>) >> }

InitGames ==
    /\ \E shape \in {"live", "stats"} : \E logs \in OrderLists(shape) :
       \E other \in OtherLists :
          games_info = [ g \in Games |->
                           [ pbp_logs |-> IF g = "g1" THEN logs ELSE other ] ]
    /\ game_states = EmptyDict
    /\ status = [ g \in Games |-> 3 ]
    /\ EmptyDatabase
    /\ NoCallYet
    /\ NoInjuryData

NextGames == CreateGameStatesCall

SpecGames == InitGames /\ [][NextGames]_vars

(* ------------------------ the loop of the reducer --------------------- *)
\* A personId of 0 stands for "no player" in the feeds.
PlayerIds == { 0, 7 }
PlayerName(player_id) == << "player", player_id >>
Sides == { "home", "away" }

\* players = {"home": {}, "away": {}}
NoPlayers == [ team \in Sides |-> EmptyDict ]

\* team = "home" if team_tricode == home else "away"
TeamOf(team_tricode, home) == IF team_tricode = home THEN "home" ELSE "away"

\* if player_id not in players[team]: players[team][player_id] = {...}
WithPlayer(players, team, player_id, player_name) ==
    IF player_id \in DOMAIN players[team] THEN players
    ELSE [ players EXCEPT ![team] =
             [ id \in DOMAIN players[team] \cup { player_id } |->
                 IF id = player_id THEN [ name |-> player_name, points |-> 0 ]
                 ELSE players[team][id] ] ]

AddPoints(players, team, player_id, points) ==
    [ players EXCEPT ![team][player_id].points = @ + points ]

\* players[team][player_id]["points"] = points
SetPoints(players, team, player_id, points) ==
    [ players EXCEPT ![team][player_id].points = points ]

\* live: row.get("personId") is not None and row.get("playerNameI") is not None
\* stats: row.get("personId") and row.get("playerNameI")
IsPlayerEvent(shape, row) ==
    IF shape = "live" THEN Has(row.personId) /\ Has(row.playerNameI)
    ELSE Has(row.personId) /\ Val(row.personId) # 0 /\ Has(row.playerNameI)

\* live: row.get("pointsTotal"); stats: re.search(r"\((\d+) PTS\)", description)
EventPoints(shape, row) ==
    IF shape = "live" THEN row.pointsTotal ELSE row.description_points

UpdatePlayers(shape, players, row, home) ==
    IF IsPlayerEvent(shape, row) /\ Has(row.teamTricode)
    THEN LET team == TeamOf(Val(row.teamTricode), home)
             player_id == Val(row.personId)
             created == WithPlayer(players, team, player_id, Val(row.playerNameI))
         IN  IF Has(EventPoints(shape, row))
             THEN SetPoints(created, team, player_id,
                            ParseInt(Val(EventPoints(shape, row))))
             ELSE created
    ELSE players

\* Python objects live in a store and are held by reference; objects[1] is
\* the dict bound to the local name players.
SameObject(objects, ref) == [ objects |-> objects, ref |-> ref ]

\* deepcopy(players): a new object with the content of the old one
deepcopy(objects, ref) ==
    [ objects |-> Append(objects, objects[ref]), ref |-> Len(objects) + 1 ]

\* Events of one period and clock that differ in player, team code and points.
TeamCodes == { "BOS", "NYK", "XXX" }

PlayerBodies ==
    { << Absent, team, Absent >> : team \in { Absent, Present("BOS") } }
    \cup { << Present(player_id), team, points >> :
             player_id \in PlayerIds,
             team \in { Absent } \cup { Present(code) : code \in TeamCodes },
             points \in { Absent } \cup { Present(txt) : txt \in ScoreTexts } }

PlayerEvent(shape, seq, body) ==
    [ orderNumber        |-> IF shape = "live" THEN Present(seq) ELSE Absent,
      actionId           |-> IF shape = "stats" THEN Present(seq) ELSE Absent,
      period             |-> 1,
      clock              |-> <<0, 0>>,
      description        |-> TRUE,
      actionType         |-> "2pt",
      subType            |-> "made",
      scoreHome          |-> Present(<<seq>>),
      scoreAway          |-> Present(<<0>>),
      personId           |-> body[1],
      playerNameI        |-> IF Has(body[1]) THEN Present(PlayerName(Val(body[1])))
                             ELSE Absent,
      teamTricode        |-> body[2],
      pointsTotal        |-> IF shape = "live" THEN body[3] ELSE Absent,
      description_points |-> IF shape = "stats" THEN body[3] ELSE Absent ]

PlayerEventLists(shape) ==
    UNION { { [ i \in 1..n |-> PlayerEvent(shape, i, b[i]) ] :
              b \in [1..n -> PlayerBodies] } : n \in 0..MaxLen }

InitLoop ==
    /\ \E shape \in {"live", "stats"} : \E logs \in PlayerEventLists(shape) :
          games_info = [ g \in {"g1"} |-> [ pbp_logs |-> logs ] ]
    /\ game_states = EmptyDict
    /\ status = [ g \in Games |-> 3 ]
    /\ EmptyDatabase
    /\ NoCallYet
    /\ NoInjuryData

\* The code up to the loop over the rows of game g1.
EnterLoop ==
    /\ loop = Absent
    /\ game_states = EmptyDict
    /\ LET logs == HasDescription(sorted(games_info["g1"].pbp_logs))
       IN  loop' = Present([ shape   |-> IF logs # <<>> /\ Has(logs[1].orderNumber)
                                         THEN "live" ELSE "stats",
                             logs    |-> logs,
                             i       |-> 0,
                             objects |-> << NoPlayers >>,
                             current_home_score |-> 0,
                             current_away_score |-> 0,
                             states  |-> <<>> ])
    /\ UNCHANGED << status, pbpvars, gsvars, boxvars, pre_game_data_finalized, now,
                    features, faultvars, selvars, injvars, predvars, repvars, queryvars,
                    boxscore_result, box_failed, pool >>

\* One iteration of "for i, row in enumerate(logs)".
ProcessEvent ==
    /\ Has(loop)
    /\ Val(loop).i < Len(Val(loop).logs)
    /\ LET l == Val(loop)
           row == l.logs[l.i + 1]
           players == UpdatePlayers(l.shape, l.objects[1], row, home_team("g1"))
           home_score == IF l.shape = "live" THEN LiveScore(row.scoreHome)
                         ELSE StatsScore(row.scoreHome, l.current_home_score)
           away_score == IF l.shape = "live" THEN LiveScore(row.scoreAway)
                         ELSE StatsScore(row.scoreAway, l.current_away_score)
           play_id == IF l.shape = "live" THEN Val(row.orderNumber)
                      ELSE Val(row.actionId)
           copy == deepcopy([ l.objects EXCEPT ![1] = players ], 1)
           current_game_state ==
               [ state |-> GameState(play_id, row, home_score, away_score,
                                     IsFinal(row, l.i + 1, Len(l.logs))),
                 players_data |-> copy.ref ]
       IN  loop' = Present([ l EXCEPT !.i = @ + 1,
                                      !.objects = copy.objects,
                                      !.current_home_score = home_score,
                                      !.current_away_score = away_score,
                                      !.states = Append(@, current_game_state) ])
    /\ UNCHANGED << status, pbpvars, gsvars, boxvars, pre_game_data_finalized, now,
                    features, faultvars, selvars, injvars, predvars, repvars, queryvars,
                    boxscore_result, box_failed, pool >>

\* What a holder of the k-th emitted state reads from it.
StateRead(l, k) ==
    [ state |-> l.states[k].state,
      players_data |-> l.objects[l.states[k].players_data] ]

\* return game_states
ReturnStates ==
    /\ Has(loop)
    /\ Val(loop).i = Len(Val(loop).logs)
    /\ game_states = EmptyDict
    /\ game_states' = [ g \in {"g1"} |->
                          [ k \in 1..Len(Val(loop).states) |-> Val(loop).states[k].state ] ]
    /\ UNCHANGED << games_info, dbvars >>

NextLoop == EnterLoop \/ ProcessEvent \/ ReturnStates

SpecLoop == InitLoop /\ [][NextLoop]_vars

(* ------------------- save_game_states and the marking ----------------- *)
\* The play-by-play of a game in the calls of save_game_states: none, one
\* play, or a play and the game-end action.
SaveLogs ==
    { <<>>,
      << Event("live", 1, 1, <<1, 0>>, TRUE, <<"2pt", "made">>,
               << Present(<<1>>), Present(<<0>>) >>) >>,
      << Event("live", 1, 1, <<1, 0>>, TRUE, <<"2pt", "made">>,
               << Present(<<1>>), Present(<<0>>) >>),
         Event("live", 2, 1, <<0, 0>>, TRUE, <<"game", "end">>,
               << Present(<<1>>), Present(<<0>>) >>) >> }

\* The arguments of save_game_states: what create_game_states returned for
\* some of the games.
SaveArguments ==
    UNION { { create_game_states([ g \in S |-> [ pbp_logs |-> logs[g] ] ]) :
              logs \in [S -> SaveLogs] } : S \in SUBSET Games }

InitSave ==
    /\ games_info = EmptyDict
    /\ game_states = EmptyDict
    /\ status = [ g \in Games |-> 3 ]
    /\ pbp \in [Games -> SaveLogs]
    /\ gs = [ g \in Games |-> <<>> ]
    /\ game_data_finalized = [ g \in Games |-> 0 ]
    /\ pbp_last_fetched_at = [ g \in Games |-> Absent ]
    /\ gamestates_last_created_at = [ g \in Games |-> Absent ]
    /\ box = [ g \in Games |-> NoBox ]
    /\ boxscore_data_finalized = [ g \in Games |-> 0 ]
    /\ boxscore_last_fetched_at = [ g \in Games |-> Absent ]
    /\ pre_game_data_finalized = [ g \in Games |-> 0 ]
    /\ now = 0
    /\ has_timestamp_column = FALSE
    /\ features = [ g \in Games |-> Absent ]
    /\ NoCallYet
    /\ NoInjuryData

\* save_game_states(game_states); the writes of the games of `failing` raise.
SaveGameStatesCall ==
    \E arg \in SaveArguments : \E failing \in SUBSET SavedGames(arg) :
        /\ game_states' = arg
        /\ gs' = save_game_states_rows(gs, arg, failing)
        /\ gamestates_last_created_at' =
              save_game_states_stamp(gamestates_last_created_at, arg, failing, now)
        /\ game_data_finalized' = save_game_states_flags(game_data_finalized, arg, failing)
        /\ write_failed' = failing
        /\ save_result' = Present(save_game_states_result(arg, failing))
        /\ UNCHANGED << games_info, status, pbpvars, boxvars, pre_game_data_finalized,
                        now, features, mark_failed, selvars, injvars, runvars, queryvars, predvars,
                        repvars >>

\* _mark_pbp_games_finalized(chunk_game_ids)
MarkPbpGamesFinalized ==
    \E game_ids \in SUBSET Games :
        /\ game_ids # {}
        /\ game_data_finalized' =
              mark_pbp_games_finalized(game_data_finalized, game_ids, pbp, gs)
        /\ UNCHANGED << games_info, game_states, gs, gamestates_last_created_at,
                        status, pbpvars, boxvars, pre_game_data_finalized, now,
                        features, sidevars >>

NextSave == SaveGameStatesCall \/ MarkPbpGamesFinalized

SpecSave == InitSave /\ [][NextSave]_vars

(* ----------------------------- the pipeline --------------------------- *)
\* What the play-by-play source returns for a game in the pipeline runs: a
\* scoring play, a game-end action, or an event without a description.
PlayBody == << 1, <<0, 0>>, TRUE, <<"2pt", "made">>, << Present(<<1>>), Present(<<0>>) >> >>
EndBody == << 1, <<0, 0>>, TRUE, <<"game", "end">>, << Present(<<1>>), Present(<<1>>) >> >>
BlankBody == << 1, <<0, 0>>, FALSE, <<"", "">>, << Absent, Absent >> >>
FetchBodies == { PlayBody, EndBody, BlankBody }

FetchedLists ==
    UNION { { [ i \in 1..n |->
                  Event("live", i, b[i][1], b[i][2], b[i][3], b[i][4], b[i][5]) ] :
              b \in [1..n -> FetchBodies] } : n \in 1..MaxLen }

\* A season of two games: g1 is being played or is over, g2 has not started.
Init ==
    /\ games_info = EmptyDict
    /\ game_states = EmptyDict
    /\ \E st \in {2, 3} : status = [ g \in Games |-> IF g = "g1" THEN st ELSE 1 ]
    /\ EmptyDatabase
    /\ NoCallYet
    /\ NoInjuryData

Tick ==
    /\ \E d \in {1, RefetchMinutes} : now + d <= MaxTime /\ now' = now + d
    /\ UNCHANGED << status, pbpvars, gsvars, boxvars, pre_game_data_finalized,
                    features, sidevars >>

\* save_pbp: the rows of every fetched game are replaced by the fetched
\* events and the fetch is stamped.
save_pbp_rows(logtab, pbp_data) ==
    [ g \in DOMAIN logtab |-> IF g \in DOMAIN pbp_data THEN pbp_data[g] ELSE logtab[g] ]

save_pbp_stamp(stamps, pbp_data, t) ==
    [ g \in DOMAIN stamps |-> IF g \in DOMAIN pbp_data THEN Present(t) ELSE stamps[g] ]

\* update_pbp_data: get_pbp returns a list of `lists` for some of the selected
\* games (a failed fetch leaves the game out); one chunk holds every selected
\* game.
PbpDataPass(lists) ==
    LET game_ids == { g \in Games :
                        NeedsPbpUpdate(status[g], game_data_finalized[g],
                                       pbp_last_fetched_at[g], pbp[g], now) }
    IN  /\ game_ids # {}
        /\ \E got \in SUBSET game_ids : \E pbp_data \in [got -> lists] :
              /\ pbp' = save_pbp_rows(pbp, pbp_data)
              /\ pbp_last_fetched_at' = save_pbp_stamp(pbp_last_fetched_at, pbp_data, now)
        /\ UNCHANGED << status, gsvars, boxvars, pre_game_data_finalized, now,
                        features, sidevars >>

UpdatePbpData == PbpDataPass(FetchedLists)

\* update_game_state_data: one chunk holds every selected game. The writes of
\* the games of `failing` raise inside save_game_states, and the verification
\* query of the marking step raises for the game fail_at; the exception of the
\* marking step is caught by the chunk's handler.
GameStateDataPass(failing, fail_at) ==
    LET game_ids == { g \in Games :
                        NeedsGameStateUpdate(status[g], pbp[g], gs[g],
                                             pbp_last_fetched_at[g],
                                             gamestates_last_created_at[g]) }
        inputs == [ g \in { x \in game_ids : pbp[x] # <<>> } |-> [ pbp_logs |-> pbp[g] ] ]
    IN  \E states \in { create_game_states(inputs) } :
        \E saved \in { save_game_states_rows(gs, states, failing) } :
        /\ game_ids # {}
        /\ failing \subseteq SavedGames(states)
        /\ Has(fail_at) => Val(fail_at) \in game_ids
        /\ games_info' = inputs
        /\ game_states' = states
        /\ gs' = saved
        /\ gamestates_last_created_at' =
              save_game_states_stamp(gamestates_last_created_at, states, failing, now)
        /\ game_data_finalized' =
              mark_pbp_games_finalized_in_tx(game_data_finalized, game_ids, pbp, saved,
                                             fail_at)
        /\ write_failed' = failing
        /\ save_result' = Present(save_game_states_result(states, failing))
        /\ mark_failed' = IF Has(fail_at) THEN Present(<< "pbp", Val(fail_at) >>) ELSE Absent
        /\ UNCHANGED << status, pbpvars, boxvars, pre_game_data_finalized, now,
                        features, selvars, injvars, runvars, queryvars, predvars, repvars >>

UpdateGameStateData == GameStateDataPass({}, Absent)

\* What the box-score source returns for a game: nothing (a failed fetch is
\* the entry ([], [])), a game still being played, a finished game one minute
\* short for one team, a complete game.
CompleteBox == [ players |-> 16, teams |-> 2, minutes |-> <<239, 240>> ]

BoxFetched ==
    { NoBox,
      [ players |-> 10, teams |-> 2, minutes |-> <<120, 120>> ],
      [ players |-> 16, teams |-> 2, minutes |-> <<239, 238>> ],
      CompleteBox }

\* save_boxscores upserts the fetched rows; the source never returns fewer
\* players of a game than it did before, so the stored rows are the fetched ones.
save_boxscores_rows(boxtab, boxscore_data) ==
    [ g \in DOMAIN boxtab |->
        IF g \in DOMAIN boxscore_data /\ boxscore_data[g] # NoBox
        THEN boxscore_data[g] ELSE boxtab[g] ]

\* update_boxscore_data: one chunk holds every selected game; the source
\* returns an element of `fetched` for each, and the verification query of the
\* marking step raises for the game fail_at.
BoxscoreDataPass(fetched, fail_at) ==
    LET game_ids == { g \in Games :
                        NeedsBoxscores(status[g], boxscore_data_finalized[g],
                                       boxscore_last_fetched_at[g], box[g], now,
                                       has_timestamp_column) }
    IN  /\ game_ids # {}
        /\ Has(fail_at) => Val(fail_at) \in game_ids
        /\ \E boxscore_data \in [game_ids -> fetched] :
              /\ \A g \in game_ids :
                    boxscore_data[g] = NoBox \/ boxscore_data[g].players >= box[g].players
              /\ box' = save_boxscores_rows(box, boxscore_data)
              /\ has_timestamp_column' = TRUE
              /\ boxscore_last_fetched_at' =
                    [ g \in Games |-> IF g \in game_ids THEN Present(now)
                                      ELSE boxscore_last_fetched_at[g] ]
              /\ boxscore_data_finalized' =
                    mark_boxscore_games_finalized_in_tx(boxscore_data_finalized, game_ids,
                                                        box', status, fail_at)
        /\ mark_failed' = IF Has(fail_at) THEN Present(<< "boxscore", Val(fail_at) >>)
                          ELSE Absent
        /\ UNCHANGED << status, pbpvars, gsvars, pre_game_data_finalized, now,
                        features, write_failed, save_result, selvars, injvars, runvars, queryvars,
                        predvars, repvars >>

UpdateBoxscoreData == BoxscoreDataPass(BoxFetched, Absent)

\* create_feature_sets and save_feature_sets: the number of keys of the
\* feature set of a game, none while a team has no loaded prior final state.
FeatureCount == 43

prior_states_loaded(g, team, sttab, statetab) ==
    { p \in DOMAIN sttab :
        /\ date_time_utc(p) < date_time_utc(g)
        /\ team \in { home_team(p), away_team(p) }
        /\ sttab[p] = 3
        /\ HasFinalRow(statetab[p]) }

create_feature_set(g, sttab, statetab) ==
    IF \/ prior_states_loaded(g, home_team(g), sttab, statetab) = {}
       \/ prior_states_loaded(g, away_team(g), sttab, statetab) = {}
    THEN 0 ELSE FeatureCount

save_feature_sets(feat, game_ids, sttab, statetab) ==
    [ g \in DOMAIN feat |->
        IF g \in game_ids THEN Present(create_feature_set(g, sttab, statetab))
        ELSE feat[g] ]

\* update_pre_game_data: one chunk holds every selected game.
UpdatePreGameData ==
    LET game_ids == { g \in Games :
                        NeedsPreGameData(g, status, pre_game_data_finalized,
                                         game_data_finalized, boxscore_data_finalized) }
    IN  /\ game_ids # {}
        /\ features' = save_feature_sets(features, game_ids, status, gs)
        /\ pre_game_data_finalized' =
              update_pre_game_flags(pre_game_data_finalized, game_ids, status, gs)
        /\ UNCHANGED << status, pbpvars, gsvars, boxvars, now, sidevars >>

Next ==
    \/ Tick
    \/ UpdatePbpData
    \/ UpdateGameStateData
    \/ UpdateBoxscoreData
    \/ UpdatePreGameData

Spec == Init /\ [][Next]_vars

(* ------------------------- the repeated passes ------------------------ *)
\* A season whose game g1 is Final; every fetch of its play-by-play returns
\* the play alone or the play and the game-end action. update_database runs
\* update_game_state_data on every pass, so the stage is not postponed for
\* ever while it has something to do.
InitLive ==
    /\ games_info = EmptyDict
    /\ game_states = EmptyDict
    /\ status = [ g \in Games |-> IF g = "g1" THEN 3 ELSE 1 ]
    /\ EmptyDatabase
    /\ NoCallYet
    /\ NoInjuryData

UpdatePbpDataLive == PbpDataPass(SaveLogs \ { <<>> })

NextLive == Tick \/ UpdatePbpDataLive \/ UpdateGameStateData

SpecLive == InitLive /\ [][NextLive]_vars /\ WF_vars(UpdateGameStateData)

(* ------------------------- save_boxscores alone ----------------------- *)
\* The rows of the games of `written` have been upserted and their fetch
\* stamped inside the one transaction of the call.
boxscores_written(boxtab, data, written) ==
    save_boxscores_rows(boxtab, [ g \in written |-> data[g] ])

boxscores_stamped(stamps, written, t) ==
    [ g \in DOMAIN stamps |-> IF g \in written THEN Present(t) ELSE stamps[g] ]

\* save_boxscores(boxscore_data): the loop reaches the games of `before`, then
\* the write of the game fail_at raises; conn.rollback() and re-raise.
save_boxscores_table(boxtab, data, before, fail_at) ==
    IF Has(fail_at)
    THEN Rollback(boxtab, boxscores_written(boxtab, data, before \cup { Val(fail_at) }))
    ELSE boxscores_written(boxtab, data, DOMAIN data)

save_boxscores_stamps(stamps, data, before, fail_at, t) ==
    IF Has(fail_at)
    THEN Rollback(stamps, boxscores_stamped(stamps, before, t))
    ELSE boxscores_stamped(stamps, DOMAIN data, t)

InitBoxSave ==
    /\ games_info = EmptyDict
    /\ game_states = EmptyDict
    /\ status = [ g \in Games |-> 3 ]
    /\ EmptyDatabase
    /\ NoCallYet
    /\ NoInjuryData

SaveBoxscoresCall ==
    \E game_ids \in SUBSET Games : \E data \in [game_ids -> BoxFetched] :
    \E fail_at \in { Absent } \cup { Present(g) : g \in game_ids } :
    \E before \in SUBSET game_ids :
        /\ game_ids # {}
        /\ \A g \in game_ids : data[g] = NoBox \/ data[g].players >= box[g].players
        /\ Has(fail_at) => Val(fail_at) \notin before
        /\ ~Has(fail_at) => before = game_ids
        /\ boxscore_result' = Present(data)
        /\ box_failed' = fail_at
        /\ box' = save_boxscores_table(box, data, before, fail_at)
        /\ boxscore_last_fetched_at' =
              save_boxscores_stamps(boxscore_last_fetched_at, data, before, fail_at, now)
        /\ has_timestamp_column' = TRUE
        /\ UNCHANGED << status, pbpvars, gsvars, boxscore_data_finalized,
                        pre_game_data_finalized, now, features, faultvars, selvars,
                        injvars, predvars, repvars, queryvars, loop, pool >>

NextBoxSave == SaveBoxscoresCall

SpecBoxSave == InitBoxSave /\ [][NextBoxSave]_vars

(* --------------------------- get_boxscores ---------------------------- *)
cpu_count == 1

\* thread_pool_size = min(8, os.cpu_count() * 2)
thread_pool_size == IF 8 < cpu_count * 2 THEN 8 ELSE cpu_count * 2

\* What an endpoint call does: it raises, or returns records.
EndpointOutcomes == { Absent } \cup { Present(b) : b \in { NoBox, CompleteBox } }

\* get_boxscore_with_fallback, one endpoint call at a time: the live endpoint
\* (for an In Progress game), the stats endpoint, the stats endpoint again.
NextAttempt(at) == IF at = "live" THEN "stats" ELSE "retry"

\* fetch_single_boxscore: what the worker returns when get_boxscore_with_fallback
\* returned records, and when it raised.
fetch_single_boxscore(game_id, outcome) ==
    IF Has(outcome) THEN << game_id, Val(outcome) >> ELSE << game_id, NoBox >>

StoreOnlyResult(results, game_id, records) == [ g \in { game_id } |-> records ]

\* results[game_id] = (player_records, team_records)
StoreResult(results, game_id, records) ==
    [ g \in DOMAIN results \cup { game_id } |->
        IF g = game_id THEN records ELSE results[g] ]

Running(p) == { g \in p.game_ids : p.futures[g].at \in { "live", "stats", "retry" } }

InitPool ==
    /\ games_info = EmptyDict
    /\ game_states = EmptyDict
    /\ status \in [Games -> {2, 3}]
    /\ EmptyDatabase
    /\ NoCallYet
    /\ NoInjuryData

\* get_boxscores(game_ids, check_game_status=True): every fetch is submitted.
GetBoxscoresCall ==
    /\ pool = Absent
    /\ \E game_ids \in SUBSET Games :
          /\ game_ids # {}
          /\ pool' = Present([ game_ids |-> game_ids,
                               futures  |-> [ g \in game_ids |->
                                                [ at |-> "submitted", stats_calls |-> 0,
                                                  raised |-> FALSE, result |-> Absent ] ],
                               results  |-> EmptyDict ])
    /\ UNCHANGED << status, pbpvars, gsvars, boxvars, pre_game_data_finalized, now,
                    features, faultvars, selvars, injvars, predvars, repvars, queryvars, loop,
                    boxscore_result, box_failed >>

\* A free worker of the pool takes a submitted fetch.
WorkerStarts ==
    /\ Has(pool)
    /\ Cardinality(Running(Val(pool))) < thread_pool_size
    /\ \E g \in Val(pool).game_ids :
          /\ Val(pool).futures[g].at = "submitted"
          /\ pool' = Present([ Val(pool) EXCEPT
                 !.futures[g].at = IF status[g] = 2 THEN "live" ELSE "stats" ])
    /\ UNCHANGED << status, pbpvars, gsvars, boxvars, pre_game_data_finalized, now,
                    features, faultvars, selvars, injvars, predvars, repvars, queryvars, loop,
                    boxscore_result, box_failed >>

\* A worker's endpoint call returns or raises.
WorkerCalls ==
    /\ Has(pool)
    /\ \E g \in Running(Val(pool)) : \E outcome \in EndpointOutcomes :
          LET f == Val(pool).futures[g]
              calls == IF f.at = "live" THEN f.stats_calls ELSE f.stats_calls + 1
              over == Has(outcome) \/ f.at = "retry"
          IN  pool' = Present([ Val(pool) EXCEPT
                 !.futures[g] =
                     [ at          |-> IF over THEN "done" ELSE NextAttempt(f.at),
                       stats_calls |-> calls,
                       raised      |-> over /\ ~Has(outcome),
                       result      |-> IF over
                                       THEN Present(fetch_single_boxscore(g, outcome))
                                       ELSE Absent ] ])
    /\ UNCHANGED << status, pbpvars, gsvars, boxvars, pre_game_data_finalized, now,
                    features, faultvars, selvars, injvars, predvars, repvars, queryvars, loop,
                    boxscore_result, box_failed >>

\* for future in as_completed(futures): one iteration.
CollectResult ==
    /\ Has(pool)
    /\ \E g \in Val(pool).game_ids :
          /\ Val(pool).futures[g].at = "done"
          /\ LET returned == Val(Val(pool).futures[g].result)
             IN  pool' = Present([ Val(pool) EXCEPT
                    !.futures[g].at = "collected",
                    !.results = StoreResult(@, returned[1], returned[2]) ])
    /\ UNCHANGED << status, pbpvars, gsvars, boxvars, pre_game_data_finalized, now,
                    features, faultvars, selvars, injvars, predvars, repvars, queryvars, loop,
                    boxscore_result, box_failed >>

\* return results
GetBoxscoresReturns ==
    /\ Has(pool)
    /\ boxscore_result = Absent
    /\ \A g \in Val(pool).game_ids : Val(pool).futures[g].at = "collected"
    /\ boxscore_result' = Present(Val(pool).results)
    /\ UNCHANGED << status, pbpvars, gsvars, boxvars, pre_game_data_finalized, now,
                    features, faultvars, selvars, injvars, predvars, repvars, queryvars, loop,
                    box_failed, pool >>

NextPool ==
    \/ GetBoxscoresCall
    \/ WorkerStarts
    \/ WorkerCalls
    \/ CollectResult
    \/ GetBoxscoresReturns

SpecPool == InitPool /\ [][NextPool]_vars

(* ------------------ the selection of pre-game work --------------------- *)
\* get_games_with_incomplete_pre_game_data over a Games table of two rows:
\* g1 is played at time 1 or 3 by BOS and NYK, g2 at time 2 by MIA and
\* either BOS or LAL.
\* The NOT EXISTS subquery of the second SELECT.
NoEarlierGameBlocks(season_arg, rows, g1) == TRUE

NoEarlierGameOpen(season_arg, rows, g1) ==
    ~\E g2 \in DOMAIN rows :
        /\ rows[g2].season = season_arg
        /\ rows[g2].season_type \in {"Regular Season", "Post Season"}
        /\ rows[g2].date_time_utc < rows[g1].date_time_utc
        /\ \/ rows[g2].home_team = rows[g1].home_team
           \/ rows[g2].away_team = rows[g1].home_team
           \/ rows[g2].home_team = rows[g1].away_team
           \/ rows[g2].away_team = rows[g1].away_team
        /\ (rows[g2].game_data_finalized = 0 \/ rows[g2].boxscore_data_finalized = 0)
        /\ rows[g2].status_text # "PPD"

get_games_with_incomplete_pre_game_data(season_arg, rows) ==
    { g \in DOMAIN rows :
        /\ rows[g].season = season_arg
        /\ rows[g].season_type \in {"Regular Season", "Post Season"}
        /\ rows[g].pre_game_data_finalized = 0
        /\ rows[g].game_data_finalized = 1
        /\ rows[g].status \in {2, 3}
        /\ rows[g].status_text # "PPD" }
    \cup
    { g1 \in DOMAIN rows :
        /\ rows[g1].season = season_arg
        /\ rows[g1].season_type \in {"Regular Season", "Post Season"}
        /\ rows[g1].pre_game_data_finalized = 0
        /\ rows[g1].status = 1
        /\ rows[g1].status_text # "PPD"
        /\ NoEarlierGameOpen(season_arg, rows, g1) }

FirstRows ==
    [ season : {Season, EarlierSeason}, season_type : {"Regular Season", "Pre Season"},
      status : {1, 3}, status_text : {"PPD", "7:30 pm ET"}, date_time_utc : {1, 3},
      home_team : {"BOS"}, away_team : {"NYK"}, pre_game_data_finalized : {0},
      game_data_finalized : {0, 1}, boxscore_data_finalized : {0, 1} ]

SecondRows ==
    [ season : {Season}, season_type : {"Regular Season", "Pre Season"},
      status : {1, 2, 3}, status_text : {"PPD", "7:30 pm ET"}, date_time_utc : {2},
      home_team : {"BOS", "LAL"}, away_team : {"MIA"}, pre_game_data_finalized : {0, 1},
      game_data_finalized : {0, 1}, boxscore_data_finalized : {0} ]

InitPre ==
    /\ games_info = EmptyDict
    /\ game_states = EmptyDict
    /\ status = [ g \in Games |-> 1 ]
    /\ EmptyDatabase
    /\ NoResultYet
    /\ season = [ g \in Games |-> Season ]
    /\ predictions = NoPredictions
    /\ NoInjuryData
    /\ \E r1 \in FirstRows : \E r2 \in SecondRows :
          games_table = Present([ g \in Games |-> IF g = "g1" THEN r1 ELSE r2 ])
    /\ pre_selected = Absent
    /\ injury_table = Absent

SelectPreGameGames ==
    /\ pre_selected = Absent
    /\ \E season_arg \in {Season, EarlierSeason} :
          pre_selected' =
              Present([ season |-> season_arg,
                        game_ids |-> get_games_with_incomplete_pre_game_data(
                                         season_arg, Val(games_table)) ])
    /\ UNCHANGED << games_info, status, pbpvars, gsvars, boxvars, pre_game_data_finalized,
                    now, features, faultvars, selvars, injvars, predvars, repvars,
                    runvars, games_table, injury_table >>

NextPre == SelectPreGameGames

SpecPre == InitPre /\ [][NextPre]_vars

(* ------------------ the unique index of InjuryReports ------------------ *)
\* InjuryReports rows by id.  team and nba_player_id may be NULL.
InjuryIds == 1..MaxInjuryRows
InjuryRows ==
    [ player_name : {"Tatum", "Brown"}, report_timestamp : {1}, source : {"NBA_Official"},
      team : {Absent, Present("BOS")}, nba_player_id : {Absent, Present(7)} ]

\* COALESCE(team, '')
CoalesceTeam(team) == IF Has(team) THEN Val(team) ELSE ""

\* The GROUP BY columns of the DELETE and the columns of the new index.
SemanticKey(row) ==
    << row.player_name, row.report_timestamp, row.source, CoalesceTeam(row.team) >>

Min(S) == CHOOSE x \in S : \A y \in S : x <= y

\* SELECT MIN(CASE WHEN nba_player_id IS NOT NULL THEN id ELSE id + 1000000000 END)
\* ... GROUP BY player_name, report_timestamp, source, COALESCE(team, '')
KeptIds(rows) ==
    { Min({ IF Has(rows[id].nba_player_id) THEN id ELSE id + 1000000000
            : id \in { i \in DOMAIN rows : SemanticKey(rows[i]) = key } })
      : key \in { SemanticKey(rows[i]) : i \in DOMAIN rows } }

\* DELETE FROM InjuryReports WHERE id NOT IN (...)
remove_semantic_duplicates(rows) ==
    [ id \in DOMAIN rows \cap KeptIds(rows) |-> rows[id] ]

HasUniqueKeys(rows) ==
    \A i, j \in DOMAIN rows : SemanticKey(rows[i]) = SemanticKey(rows[j]) => i = j

\* A table with no index, with the old index idx_injury_unique, or with the
\* new one, which admits one row per key.
InitIndex ==
    /\ games_info = EmptyDict
    /\ game_states = EmptyDict
    /\ status = [ g \in Games |-> 1 ]
    /\ EmptyDatabase
    /\ NoResultYet
    /\ season = [ g \in Games |-> Season ]
    /\ predictions = NoPredictions
    /\ NoInjuryData
    /\ games_table = Absent
    /\ pre_selected = Absent
    /\ \E ids \in SUBSET InjuryIds : \E rows \in [ids -> InjuryRows] :
       \E indexes \in { {}, {"idx_injury_unique"}, {"idx_injury_semantic_unique"} } :
          /\ "idx_injury_semantic_unique" \in indexes => HasUniqueKeys(rows)
          /\ injury_table = Present([ rows |-> rows, indexes |-> indexes, before |-> Absent ])

\* _ensure_injury_unique_constraint
EnsureInjuryUniqueConstraint ==
    /\ Has(injury_table)
    /\ ~Has(Val(injury_table).before)
    /\ LET t == Val(injury_table)
       IN  IF "idx_injury_semantic_unique" \in t.indexes
           THEN injury_table' = Present([ t EXCEPT !.before = Present(t.rows) ])
           ELSE injury_table' =
                   Present([ rows    |-> remove_semantic_duplicates(t.rows),
                             indexes |-> (t.indexes \ {"idx_injury_unique"})
                                             \cup {"idx_injury_semantic_unique"},
                             before  |-> Present(t.rows) ])
    /\ UNCHANGED << games_info, status, pbpvars, gsvars, boxvars, pre_game_data_finalized,
                    now, features, faultvars, selvars, injvars, predvars, repvars,
                    runvars, games_table, pre_selected >>

NextIndex == EnsureInjuryUniqueConstraint

SpecIndex == InitIndex /\ [][NextIndex]_vars

(* ------------------------ the pipeline with faults -------------------- *)
\* A season of two finished games whose play-by-play may hold an event with
\* an unparsable clock, whose writes may fail, and whose verification queries
\* may raise.
MalformedBody == << 1, <<>>, TRUE, <<"2pt", "made">>, << Present(<<1>>), Present(<<0>>) >> >>
FaultBodies == { PlayBody, EndBody, MalformedBody }

FaultFetched ==
    { << Event("live", 1, b[1], b[2], b[3], b[4], b[5]) >> : b \in FaultBodies }

FaultBoxFetched == { NoBox, CompleteBox }

InitFault ==
    /\ games_info = EmptyDict
    /\ game_states = EmptyDict
    /\ status = [ g \in Games |-> 3 ]
    /\ EmptyDatabase
    /\ NoCallYet
    /\ NoInjuryData

\* Enough time passes for a re-fetch.
Wait ==
    /\ now + RefetchMinutes + 1 <= MaxTime
    /\ now' = now + RefetchMinutes + 1
    /\ UNCHANGED << status, pbpvars, gsvars, boxvars, pre_game_data_finalized,
                    features, sidevars >>

UpdatePbpDataMalformed == PbpDataPass(FaultFetched)

UpdateGameStateDataFailing ==
    \E failing \in SUBSET Games : \E fail_at \in { Absent } \cup { Present(g) : g \in Games } :
        /\ failing # {} \/ Has(fail_at)
        /\ GameStateDataPass(failing, fail_at)

NextFault ==
    \/ Wait
    \/ UpdatePbpDataMalformed
    \/ UpdateGameStateData
    \/ UpdateGameStateDataFailing

SpecFault == InitFault /\ [][NextFault]_vars

(* ------------------ the marking steps with failing queries ------------ *)
\* The same season, with a source that returns whole games only, and marking
\* steps whose verification query may raise.
FinalFetched == { << Event("live", 1, b[1], b[2], b[3], b[4], b[5]) >> : b \in { EndBody } }

UpdatePbpDataFinal == PbpDataPass(FinalFetched)

UpdateGameStateDataMarkFails ==
    \E g \in Games : GameStateDataPass({}, Present(g))

UpdateBoxscoreDataFew == BoxscoreDataPass(FaultBoxFetched, Absent)

UpdateBoxscoreDataMarkFails ==
    \E g \in Games : BoxscoreDataPass(FaultBoxFetched, Present(g))

NextMark ==
    \/ Wait
    \/ UpdatePbpDataFinal
    \/ UpdateGameStateData
    \/ UpdateGameStateDataMarkFails
    \/ UpdateBoxscoreDataFew
    \/ UpdateBoxscoreDataMarkFails

SpecMark == InitFault /\ [][NextMark]_vars

(* ------------------------- the selection queries --------------------- *)
\* get_games_needing_pbp_update and get_games_needing_boxscores read one
\* Games row and whether the game has rows in the dependent table. The row
\* of g1 is any row: flags, rows and timestamps may have been edited from
\* outside the pipeline. A database without the timestamp column holds no
\* box-score timestamp.
SomeLogs == << Event("live", 1, PlayBody[1], PlayBody[2], PlayBody[3], PlayBody[4], PlayBody[5]) >>

Stamps(t) == { Absent } \cup { Present(x) : x \in 0..t }

InitSel ==
    /\ games_info = EmptyDict
    /\ game_states = EmptyDict
    /\ now \in 0..MaxTime
    /\ \E st \in 1..3 : status = [ g \in Games |-> IF g = "g1" THEN st ELSE 1 ]
    /\ \E flag \in 0..1 :
          game_data_finalized = [ g \in Games |-> IF g = "g1" THEN flag ELSE 0 ]
    /\ \E flag \in 0..1 :
          boxscore_data_finalized = [ g \in Games |-> IF g = "g1" THEN flag ELSE 0 ]
    /\ \E logs \in { <<>>, SomeLogs } :
          pbp = [ g \in Games |-> IF g = "g1" THEN logs ELSE <<>> ]
    /\ \E b \in { NoBox, CompleteBox } :
          box = [ g \in Games |-> IF g = "g1" THEN b ELSE NoBox ]
    /\ \E fetched_at \in Stamps(now) :
          pbp_last_fetched_at = [ g \in Games |-> IF g = "g1" THEN fetched_at ELSE Absent ]
    /\ has_timestamp_column \in BOOLEAN
    /\ \E fetched_at \in Stamps(now) :
          /\ has_timestamp_column \/ fetched_at = Absent
          /\ boxscore_last_fetched_at =
                [ g \in Games |-> IF g = "g1" THEN fetched_at ELSE Absent ]
    /\ gs = [ g \in Games |-> <<>> ]
    /\ gamestates_last_created_at = [ g \in Games |-> Absent ]
    /\ pre_game_data_finalized = [ g \in Games |-> 0 ]
    /\ features = [ g \in Games |-> Absent ]
    /\ NoCallYet
    /\ NoInjuryData

SelectPbpGames ==
    /\ pbp_selected = Absent
    /\ pbp_selected' =
          Present({ g \in Games :
                      NeedsPbpUpdate(status[g], game_data_finalized[g],
                                     pbp_last_fetched_at[g], pbp[g], now) })
    /\ UNCHANGED << status, pbpvars, gsvars, boxvars, pre_game_data_finalized, now,
                    features, faultvars, box_selected, injvars, runvars, queryvars, predvars, repvars >>

SelectBoxscoreGames ==
    /\ box_selected = Absent
    /\ box_selected' =
          Present({ g \in Games :
                      NeedsBoxscores(status[g], boxscore_data_finalized[g],
                                     boxscore_last_fetched_at[g], box[g], now,
                                     has_timestamp_column) })
    /\ UNCHANGED << status, pbpvars, gsvars, boxvars, pre_game_data_finalized, now,
                    features, faultvars, pbp_selected, injvars, runvars, queryvars, predvars, repvars >>

NextSel == SelectPbpGames \/ SelectBoxscoreGames

SpecSel == InitSel /\ [][NextSel]_vars

(* ----------------------------- the validators ------------------------ *)
\* The validators read whatever the tables hold. The stored events of g1 are
\* any list of scoring plays and game-end actions whose play_ids are drawn
\* from 1..2, so that a play_id may be stored twice; g2 holds nothing or the
\* same play twice. GameStates holds nothing or the states derived from the
\* stored events.
StoredBodies == { PlayBody, EndBody }

StoredLogs ==
    UNION { { [ i \in 1..n |->
                  Event("live", ids[i], b[i][1], b[i][2], b[i][3], b[i][4], b[i][5]) ] :
              ids \in [1..n -> 1..2], b \in [1..n -> StoredBodies] } : n \in 0..MaxLen }

TwiceLogs == << SomeLogs[1], SomeLogs[1] >>

DerivedRows(g, logs) == StateRows(g, GameStatesOf([ pbp_logs |-> logs ]))

InitVal ==
    /\ games_info = EmptyDict
    /\ game_states = EmptyDict
    /\ now = 0
    /\ \E st \in {2, 3} : status = [ g \in Games |-> IF g = "g1" THEN st ELSE 3 ]
    /\ \E flag \in 0..1 :
          game_data_finalized = [ g \in Games |-> IF g = "g1" THEN flag ELSE 0 ]
    /\ \E logs \in StoredLogs : \E twice \in { <<>>, TwiceLogs } :
          pbp = [ g \in Games |-> IF g = "g1" THEN logs ELSE twice ]
    /\ \E derived \in BOOLEAN :
          gs = [ g \in Games |->
                   IF g = "g1" /\ derived THEN DerivedRows(g, pbp[g]) ELSE <<>> ]
    /\ \E b \in { NoBox, CompleteBox } :
          box = [ g \in Games |-> IF g = "g1" THEN b ELSE NoBox ]
    /\ pbp_last_fetched_at = [ g \in Games |-> IF pbp[g] = <<>> THEN Absent ELSE Present(0) ]
    /\ gamestates_last_created_at = [ g \in Games |-> IF gs[g] = <<>> THEN Absent ELSE Present(0) ]
    /\ boxscore_data_finalized = [ g \in Games |-> 0 ]
    /\ boxscore_last_fetched_at = [ g \in Games |-> Absent ]
    /\ has_timestamp_column = TRUE
    /\ pre_game_data_finalized = [ g \in Games |-> 0 ]
    /\ features = [ g \in Games |-> Absent ]
    /\ NoCallYet
    /\ NoInjuryData

\* validator.validate(game_ids, cursor) on a cursor of the database
Validate(validator, game_ids, issues) ==
    /\ validated = Absent
    /\ validated' = Present([ validator |-> validator, game_ids |-> game_ids,
                              issues |-> issues ])
    /\ game_data_finalized' = validate_reading(game_data_finalized, game_ids)
    /\ boxscore_data_finalized' = validate_reading(boxscore_data_finalized, game_ids)
    /\ pre_game_data_finalized' = validate_reading(pre_game_data_finalized, game_ids)
    /\ UNCHANGED << status, pbpvars, games_info, game_states, gs,
                    gamestates_last_created_at, box, boxscore_last_fetched_at,
                    has_timestamp_column, now, features, faultvars, selvars, injvars, runvars, queryvars,
                    predvars, fixed, report, exit_code >>

ValidatePbp ==
    \E game_ids \in SUBSET Games :
        Validate("PBP", game_ids,
                 PbPValidator_validate(game_ids, status, pbp, gs, pbp_last_fetched_at, now))

ValidateGameStates ==
    \E game_ids \in SUBSET Games :
        Validate("GameStates", game_ids,
                 GameStatesValidator_validate(game_ids, status, pbp, gs))

ValidateBoxscores ==
    \E game_ids \in SUBSET Games :
        Validate("Boxscores", game_ids,
                 BoxscoresValidator_validate(game_ids, status, box))

ValidateFeatures ==
    \E game_ids \in SUBSET Games :
        Validate("Features", game_ids,
                 FeaturesValidator_validate(game_ids, status, game_data_finalized,
                                            pre_game_data_finalized, features))

NextVal == ValidatePbp \/ ValidateGameStates \/ ValidateBoxscores \/ ValidateFeatures

SpecVal == InitVal /\ [][NextVal]_vars

(* ---------------------------- the health check ----------------------- *)
\* The database the health check reads: two finished games, g1 of the
\* checked season and g2 of this or of an earlier one; flags and rows may
\* disagree, which is what the check looks for.
EndLogs == << Event("live", 1, EndBody[1], EndBody[2], EndBody[3], EndBody[4], EndBody[5]) >>

InitHealth ==
    /\ games_info = EmptyDict
    /\ game_states = EmptyDict
    /\ now = 0
    /\ status = [ g \in Games |-> 3 ]
    /\ \E se \in { Season, EarlierSeason } :
          season = [ g \in Games |-> IF g = "g1" THEN Season ELSE se ]
    /\ game_data_finalized \in [ Games -> 0..1 ]
    /\ \E logs \in { <<>>, EndLogs } :
          pbp = [ g \in Games |-> IF g = "g1" THEN logs ELSE <<>> ]
    /\ \E rows \in { <<>>, DerivedRows("g1", EndLogs) } :
          gs = [ g \in Games |-> IF g = "g1" THEN rows ELSE <<>> ]
    /\ pbp_last_fetched_at = [ g \in Games |-> IF pbp[g] = <<>> THEN Absent ELSE Present(0) ]
    /\ gamestates_last_created_at = [ g \in Games |-> IF gs[g] = <<>> THEN Absent ELSE Present(0) ]
    /\ box = [ g \in Games |-> NoBox ]
    /\ boxscore_data_finalized = [ g \in Games |-> 0 ]
    /\ boxscore_last_fetched_at = [ g \in Games |-> Absent ]
    /\ has_timestamp_column = TRUE
    /\ pre_game_data_finalized = [ g \in Games |-> 0 ]
    /\ features = [ g \in Games |-> Absent ]
    /\ predictions = NoPredictions
    /\ NoResultYet
    /\ NoQueryYet
    /\ NoInjuryData

FlagCheckNames ==
    { "game_data_has_pbp", "game_data_has_final_state", "boxscore_has_playerbox",
      "pregame_has_features", "flag_dependency_pregame" }

FlagsChecked == \E i \in 1..Len(report) : report[i].check_name \in FlagCheckNames

\* HealthReport.add, called by the checks that run_all runs before the flag
\* consistency check
AddResult ==
    /\ exit_code = Absent
    /\ ~FlagsChecked
    /\ Len(report) < MaxResults
    /\ \E check_status \in CheckStatuses :
          report' = Append(report, CheckResult("check", check_status))
    /\ UNCHANGED << status, pbpvars, gsvars, boxvars, pre_game_data_finalized, now,
                    features, faultvars, selvars, injvars, runvars, queryvars, predvars, validated, fixed,
                    exit_code >>

\* SeasonHealthChecker(season)._check_flag_consistency()
CheckFlagConsistency(se) ==
    /\ exit_code = Absent
    /\ ~FlagsChecked
    /\ report' = report \o
          check_flag_consistency(se, season, status, game_data_finalized,
                                 boxscore_data_finalized, pre_game_data_finalized,
                                 pbp, gs, box, features)
    /\ UNCHANGED << status, pbpvars, gsvars, boxvars, pre_game_data_finalized, now,
                    features, faultvars, selvars, injvars, runvars, queryvars, predvars, validated, fixed,
                    exit_code >>

CheckFlags == \E se \in { Season, EarlierSeason } : CheckFlagConsistency(se)

\* sys.exit(report.exit_code)
ReadExitCode ==
    /\ exit_code = Absent
    /\ exit_code' = Present(HealthReport_exit_code(report))
    /\ UNCHANGED << status, pbpvars, gsvars, boxvars, pre_game_data_finalized, now,
                    features, faultvars, selvars, injvars, runvars, queryvars, predvars, validated, fixed,
                    report >>

NextHealth == AddResult \/ CheckFlags \/ ReadExitCode

SpecHealth == InitHealth /\ [][NextHealth]_vars

(* ------------------------------ the auto-fix -------------------------- *)
\* The database the evaluator is run on: g1 of the season, g2 of this or of
\* an earlier one, with any flags; g1 may hold play-by-play, terminal states
\* and features, g2 holds no row.
InitFix ==
    /\ games_info = EmptyDict
    /\ game_states = EmptyDict
    /\ now = 0
    /\ status = [ g \in Games |-> 3 ]
    /\ \E se \in { Season, EarlierSeason } :
          season = [ g \in Games |-> IF g = "g1" THEN Season ELSE se ]
    /\ game_data_finalized \in [ Games -> 0..1 ]
    /\ pre_game_data_finalized \in [ Games -> 0..1 ]
    /\ \E flag \in 0..1 :
          boxscore_data_finalized = [ g \in Games |-> IF g = "g1" THEN flag ELSE 0 ]
    /\ \E logs \in { <<>>, EndLogs } :
          pbp = [ g \in Games |-> IF g = "g1" THEN logs ELSE <<>> ]
    /\ \E rows \in { <<>>, DerivedRows("g1", EndLogs) } :
          gs = [ g \in Games |-> IF g = "g1" THEN rows ELSE <<>> ]
    /\ \E feat \in { Absent, Present(FeatureCount) } :
          features = [ g \in Games |-> IF g = "g1" THEN feat ELSE Absent ]
    /\ pbp_last_fetched_at = [ g \in Games |-> IF pbp[g] = <<>> THEN Absent ELSE Present(0) ]
    /\ gamestates_last_created_at = [ g \in Games |-> IF gs[g] = <<>> THEN Absent ELSE Present(0) ]
    /\ box = [ g \in Games |-> NoBox ]
    /\ boxscore_last_fetched_at = [ g \in Games |-> Absent ]
    /\ has_timestamp_column = TRUE
    /\ predictions = NoPredictions
    /\ NoResultYet
    /\ NoQueryYet
    /\ NoInjuryData

SeasonArguments == { Absent, Present(Season), Present(EarlierSeason) }

\* DatabaseEvaluator.fix_issues(season)
FixIssues(season_arg) ==
    LET game_data ==
            IF Has(season_arg)
            THEN fix_game_data_flags(Val(season_arg), season, game_data_finalized, pbp, gs)
            ELSE [ flags |-> game_data_finalized, fixed |-> 0 ]
        pre_game ==
            IF Has(season_arg)
            THEN fix_pre_game_flags(Val(season_arg), season, pre_game_data_finalized,
                                    features)
            ELSE [ flags |-> pre_game_data_finalized, fixed |-> 0 ]
    IN  /\ game_data_finalized' = game_data.flags
        /\ pre_game_data_finalized' = pre_game.flags
        /\ fixed' = Present([ season |-> season_arg,
                              count |-> game_data.fixed + pre_game.fixed ])
        /\ UNCHANGED << status, pbpvars, games_info, game_states, gs,
                        gamestates_last_created_at, boxvars, now, features, faultvars,
                        selvars, injvars, runvars, queryvars, predvars, validated, report, exit_code >>

FixCall == \E season_arg \in SeasonArguments : FixIssues(season_arg)

NextFix == FixCall

SpecFix == InitFix /\ [][NextFix]_vars

(* ----------------------------- the predictions ----------------------- *)
\* The database before the first prediction run: g1 is over and its data is
\* stored, g2 has not started; the pre-game flags and the Features rows left
\* by earlier pre-game runs are any (a row may be missing, hold no key as
\* for a season opener, or hold the full set).
InitPred ==
    /\ games_info = EmptyDict
    /\ game_states = EmptyDict
    /\ now = 0
    /\ status = [ g \in Games |-> IF g = "g1" THEN 3 ELSE 1 ]
    /\ \E flag \in 0..1 :
          game_data_finalized = [ g \in Games |-> IF g = "g1" THEN flag ELSE 0 ]
    /\ \E flag \in 0..1 :
          /\ boxscore_data_finalized = [ g \in Games |-> IF g = "g1" THEN flag ELSE 0 ]
          /\ box = [ g \in Games |-> IF g = "g1" /\ flag = 1 THEN CompleteBox ELSE NoBox ]
    /\ pbp = [ g \in Games |-> IF g = "g1" THEN EndLogs ELSE <<>> ]
    /\ gs = [ g \in Games |-> IF g = "g1" THEN DerivedRows("g1", EndLogs) ELSE <<>> ]
    /\ pbp_last_fetched_at = [ g \in Games |-> IF g = "g1" THEN Present(0) ELSE Absent ]
    /\ gamestates_last_created_at = [ g \in Games |-> IF g = "g1" THEN Present(0) ELSE Absent ]
    /\ boxscore_last_fetched_at = [ g \in Games |-> Absent ]
    /\ has_timestamp_column = TRUE
    /\ pre_game_data_finalized \in [ Games -> 0..1 ]
    /\ features \in [ Games -> { Absent, Present(0), Present(FeatureCount) } ]
    /\ NoCallYet
    /\ NoInjuryData

\* update_prediction_data(season, predictor)
UpdatePredictionData(predictor) ==
    LET game_ids == get_games_for_prediction_update(Season, predictor, season,
                                                    pre_game_data_finalized, features,
                                                    predictions)
    IN  /\ game_ids # {}
        /\ \A g \in game_ids : predictions[g][predictor] < MaxPredictionRows
        /\ predictions' = save_predictions(predictions, game_ids, predictor)
        /\ UNCHANGED << status, pbpvars, gsvars, boxvars, pre_game_data_finalized, now,
                        features, faultvars, selvars, injvars, runvars, queryvars, season, repvars >>

UpdatePredictions == \E predictor \in Predictors : UpdatePredictionData(predictor)

FixSeason == FixIssues(Present(Season))

NextPred == UpdatePreGameData \/ UpdatePredictions \/ FixSeason

SpecPred == InitPred /\ [][NextPred]_vars

(* --------------------------- injury reports --------------------------- *)
INJURY_CACHE_TODAY_HOURS == 2

\* _should_fetch_injury_date
should_fetch_at_two_hours(report_date, cache, today_eastern, t) ==
    IF ~Has(cache[report_date]) THEN TRUE
    ELSE IF report_date = today_eastern
         THEN t - Val(cache[report_date]) >= INJURY_CACHE_TODAY_HOURS
         ELSE FALSE

should_fetch_injury_date(report_date, cache, today_eastern, t) ==
    IF ~Has(cache[report_date]) THEN TRUE
    ELSE IF report_date = today_eastern
         THEN t - Val(cache[report_date]) > INJURY_CACHE_TODAY_HOURS
         ELSE FALSE

find_no_dates_missing_data(dates, cache, reports) == {}

\* _find_dates_missing_data: cached dates without NBA_Official rows
find_dates_missing_data(dates, cache, reports) ==
    { d \in dates : Has(cache[d]) } \ { d \in dates : d \in reports }

\* The dates a pass looks at: from the start of the season up to today.
all_dates(today_eastern) == { d \in Days : d <= today_eastern }

\* dates = list(set(dates_to_fetch + dates_missing_data))
dates_of_pass(cache, reports, today_eastern, t) ==
    { d \in all_dates(today_eastern) :
        should_fetch_injury_date(d, cache, today_eastern, t) }
    \cup find_dates_missing_data(all_dates(today_eastern), cache, reports)

\* What a fetch of one date ends with: rows were saved and the date cached;
\* the date was cached without rows ("not_found", "not_yet_submitted");
\* nothing was recorded ("forbidden", any error, an empty report).
FetchOutcomes == { "saved", "cached", "failed" }

InitInj ==
    /\ games_info = EmptyDict
    /\ game_states = EmptyDict
    /\ status = [ g \in Games |-> 1 ]
    /\ EmptyDatabase
    /\ NoCallYet
    /\ NoInjuryData

HourPasses ==
    /\ now_utc < MaxHours
    /\ now_utc' = now_utc + 1
    /\ UNCHANGED << status, pbpvars, gsvars, boxvars, pre_game_data_finalized, now,
                    features, faultvars, selvars, injury_cache, injury_reports, today,
                    dates_fetched, predvars, repvars, runvars, queryvars >>

MidnightPasses ==
    /\ now_utc < MaxHours
    /\ today < MaxDay
    /\ now_utc' = now_utc + 1
    /\ today' = today + 1
    /\ UNCHANGED << status, pbpvars, gsvars, boxvars, pre_game_data_finalized, now,
                    features, faultvars, selvars, injury_cache, injury_reports,
                    dates_fetched, predvars, repvars, runvars, queryvars >>

\* update_nba_official_injuries
UpdateInjuries ==
    LET dates == dates_of_pass(injury_cache, injury_reports, today, now_utc)
    IN  /\ \E outcome \in [dates -> FetchOutcomes] :
              /\ injury_reports' =
                    injury_reports \cup { d \in dates : outcome[d] = "saved" }
              /\ injury_cache' =
                    [ d \in Days |->
                        IF d \in dates /\ outcome[d] \in { "saved", "cached" }
                        THEN Present(now_utc) ELSE injury_cache[d] ]
        /\ dates_fetched' = Present(dates)
        /\ UNCHANGED << status, pbpvars, gsvars, boxvars, pre_game_data_finalized, now,
                        features, faultvars, selvars, today, now_utc,
                        predvars, repvars, runvars, queryvars >>

NextInj == HourPasses \/ MidnightPasses \/ UpdateInjuries

SpecInj == InitInj /\ [][NextInj]_vars

(* ====================== properties of the reducer ===================== *)
SeqNo(e) == IF Has(e.orderNumber) THEN Val(e.orderNumber) ELSE Val(e.actionId)

\* The events of a game that carry a description.
Surviving(g) ==
    { games_info[g].pbp_logs[i] : i \in { k \in 1..Len(games_info[g].pbp_logs) :
                                          games_info[g].pbp_logs[k].description } }

\* The ordering key of section 4.1, written out.
Before(e, f) ==
    \/ e.period < f.period
    \/ e.period = f.period /\ duration_to_seconds(e.clock) > duration_to_seconds(f.clock)
    \/ e.period = f.period /\ duration_to_seconds(e.clock) = duration_to_seconds(f.clock)
       /\ SeqNo(e) < SeqNo(f)

LastSurviving(g) == CHOOSE e \in Surviving(g) : \A f \in Surviving(g) : ~Before(e, f)

SourceOf(g, st) == CHOOSE e \in Surviving(g) : SeqNo(e) = st.play_id

FinalIndexes(states) == { i \in 1..Len(states) : states[i].is_final_state }

IsLive(g) == \E e \in Surviving(g) : Has(e.orderNumber)

Carries(g, o) == IsLive(g) \/ Has(o)
Carried(o) == IF Has(o) THEN ParseInt(Val(o)) ELSE 0

EventScoresMonotone(g) ==
    /\ \A e \in Surviving(g) :
          /\ Carries(g, e.scoreHome) => Carried(e.scoreHome) >= 0
          /\ Carries(g, e.scoreAway) => Carried(e.scoreAway) >= 0
    /\ \A e, f \in Surviving(g) :
          Before(e, f) =>
            /\ (Carries(g, e.scoreHome) /\ Carries(g, f.scoreHome))
                  => Carried(e.scoreHome) <= Carried(f.scoreHome)
            /\ (Carries(g, e.scoreAway) /\ Carries(g, f.scoreAway))
                  => Carried(e.scoreAway) <= Carried(f.scoreAway)

StatesMonotone(states) ==
    /\ \A i, j \in 1..Len(states) :
          i < j => /\ states[i].home_score <= states[j].home_score
                   /\ states[i].away_score <= states[j].away_score
    /\ \A i \in 1..Len(states) : states[i].home_score >= 0 /\ states[i].away_score >= 0

C3_TerminalOnlyLastGameEnd ==
    \A g \in DOMAIN game_states :
        /\ \A i \in FinalIndexes(game_states[g]) :
              /\ i = Len(game_states[g])
              /\ IsGameEnd(SourceOf(g, game_states[g][i]))
        /\ (Surviving(g) # {} /\ ~IsGameEnd(LastSurviving(g)))
              => FinalIndexes(game_states[g]) = {}

\* C3 witness: an earlier event is a game-end action, the last one is not,
\* and no emitted state is terminal.
C3_Witness ==
    /\ "g1" \in DOMAIN game_states
    /\ Len(game_states["g1"]) = 2
    /\ \E e \in Surviving("g1") : IsGameEnd(e)
    /\ ~IsGameEnd(LastSurviving("g1"))
    /\ FinalIndexes(game_states["g1"]) = {}

\* C4: when the last surviving event by ordering key is a game-end action,
\* exactly one state is terminal and it has the scores embedded in that event.
C4_GameEndLastGivesOneTerminal ==
    \A g \in DOMAIN game_states :
        (Surviving(g) # {} /\ IsGameEnd(LastSurviving(g))) =>
            /\ Cardinality(FinalIndexes(game_states[g])) = 1
            /\ \A i \in FinalIndexes(game_states[g]) :
                  /\ Has(LastSurviving(g).scoreHome) =>
                        game_states[g][i].home_score = ParseInt(Val(LastSurviving(g).scoreHome))
                  /\ Has(LastSurviving(g).scoreAway) =>
                        game_states[g][i].away_score = ParseInt(Val(LastSurviving(g).scoreAway))

\* C4 witness: the game-end event arrives first but is last by ordering key,
\* and the terminal state has its scores 1-0 after a 0-0 state.
C4_Witness ==
    /\ "g1" \in DOMAIN game_states
    /\ Len(game_states["g1"]) = 2
    /\ IsGameEnd(games_info["g1"].pbp_logs[1])
    /\ FinalIndexes(game_states["g1"]) = {2}
    /\ game_states["g1"][2].play_id = 1
    /\ game_states["g1"][1].home_score = 0
    /\ game_states["g1"][2].home_score = 1
    /\ game_states["g1"][2].away_score = 0

(* ====================== properties of the pipeline ==================== *)
FinalRows(rows) == { i \in 1..Len(rows) : rows[i].is_final_state = 1 }

\* C1: every game has at most one terminal state, in the list returned by
\* create_game_states and among its persisted GameStates rows.
C1_AtMostOneFinalState ==
    /\ \A g \in DOMAIN game_states : Cardinality(FinalIndexes(game_states[g])) <= 1
    /\ \A g \in Games : Cardinality(FinalRows(gs[g])) <= 1

\* C1 witness: a game whose two stored events are both game-end actions has
\* two persisted states, one of them terminal, written by a later save.
C1_Witness ==
    /\ Len(pbp["g1"]) = 2
    /\ \A i \in 1..2 : IsGameEnd(pbp["g1"][i])
    /\ Len(gs["g1"]) = 2
    /\ Cardinality(FinalRows(gs["g1"])) = 1
    /\ gamestates_last_created_at["g1"] = Present(MaxTime)

\* C5: a game that is In Progress never has a persisted terminal state and
\* never has game_data_finalized set.
C5_InProgressNeverTerminal ==
    \A g \in Games :
        status[g] = 2 => (FinalRows(gs[g]) = {} /\ game_data_finalized[g] = 0)

\* The preconditions of section 4.4, written out.
GameDataPrecondition(logs, rows) ==
    Len(logs) >= 1 /\ Len(rows) >= 1 /\ Cardinality(FinalRows(rows)) = 1

BoxscorePrecondition(b, st) ==
    /\ b.teams = 2
    /\ b.players >= 16
    /\ Len(b.minutes) = 2
    /\ \A i \in 1..Len(b.minutes) : b.minutes[i] >= 239
    /\ st = 3

GameStateSelected(g) ==
    NeedsGameStateUpdate(status[g], pbp[g], gs[g], pbp_last_fetched_at[g],
                         gamestates_last_created_at[g])

BoxscoreSelected(g) ==
    NeedsBoxscores(status[g], boxscore_data_finalized[g], boxscore_last_fetched_at[g],
                   box[g], now, has_timestamp_column)

C7_FinalizedHasBackingData ==
    \A g \in Games :
        game_data_finalized[g] = 1 => GameDataPrecondition(pbp[g], gs[g])

\* The three flag-marking steps, run in pipeline order on the current rows
\* for the games of one chunk.
MarkedFlags(f, game_ids) ==
    LET gdf == mark_pbp_games_finalized(f.gdf, game_ids, pbp, gs)
        bdf == mark_boxscore_games_finalized(f.bdf, game_ids, box, status)
    IN  [ gdf |-> gdf,
          bdf |-> bdf,
          pre |-> update_pre_game_flags(f.pre,
                     { g \in Games : NeedsPreGameData(g, status, f.pre, gdf, bdf) },
                     status, gs) ]

CurrentFlags ==
    [ gdf |-> game_data_finalized,
      bdf |-> boxscore_data_finalized,
      pre |-> pre_game_data_finalized ]

\* C8: running the flag-marking steps again on unchanged rows changes no
\* flag, and a game_data_finalized that is True is still True after them.
C8_MarkingIsIdempotent ==
    \A game_ids \in SUBSET Games :
        /\ MarkedFlags(MarkedFlags(CurrentFlags, game_ids), game_ids)
              = MarkedFlags(CurrentFlags, game_ids)
        /\ \A g \in Games :
              game_data_finalized[g] = 1 => MarkedFlags(CurrentFlags, game_ids).gdf[g] = 1

\* C8 witness: the flags of the played game are all True and a first run of
\* the steps still raises the pre-game flag of the next game.
C8_Witness ==
    /\ game_data_finalized["g1"] = 1
    /\ boxscore_data_finalized["g1"] = 1
    /\ pre_game_data_finalized["g1"] = 1
    /\ pre_game_data_finalized["g2"] = 0
    /\ MarkedFlags(CurrentFlags, Games).pre["g2"] = 1

\* A read of the persisted states of a game next to the states passed in.
SameStates(rows, states) ==
    /\ Len(rows) = Len(states)
    /\ \A i \in 1..Len(rows) :
          /\ rows[i].play_id = states[i].play_id
          /\ rows[i].home_score = states[i].home_score
          /\ rows[i].away_score = states[i].away_score
          /\ (rows[i].is_final_state = 1) = states[i].is_final_state

\* C10 (as stated): after save_game_states the persisted rows of every game
\* of the argument are exactly the states passed in.
C10_PersistedEqualsPassed ==
    \A g \in DOMAIN game_states : SameStates(gs[g], game_states[g])

\* C10 (amended): that holds for every game passed with a non-empty state
\* list; a game passed with an empty list is skipped.
C10_NonEmptyPersistedEqualsPassed ==
    \A g \in DOMAIN game_states :
        game_states[g] # <<>> => SameStates(gs[g], game_states[g])

\* C10 witness: the rows of a flagged game were replaced by a save whose
\* states hold no terminal state, so the earlier rows are gone.
C10_Witness ==
    /\ "g1" \in DOMAIN game_states
    /\ Len(game_states["g1"]) = 2
    /\ SameStates(gs["g1"], game_states["g1"])
    /\ game_data_finalized["g1"] = 1
    /\ FinalRows(gs["g1"]) = {}

\* C14: whenever boxscore_data_finalized is set to 1 for a game, the game
\* then has exactly 2 TeamBox rows, at least 16 PlayerBox rows, exactly two
\* teams with recorded minutes each summing to at least 239, and status
\* Final; so every game with the flag has PlayerBox and TeamBox rows.
C14_BoxscoreFlagSetOnlyWhenComplete ==
    /\ [][ \A g \in Games :
              (boxscore_data_finalized[g] = 0 /\ boxscore_data_finalized'[g] = 1) =>
                  /\ box'[g].teams = 2
                  /\ box'[g].players >= 16
                  /\ Len(box'[g].minutes) = 2
                  /\ \A i \in 1..Len(box'[g].minutes) : box'[g].minutes[i] >= 239
                  /\ status'[g] = 3
          ]_vars
    /\ [](\A g \in Games :
              boxscore_data_finalized[g] = 1 => (box[g].players > 0 /\ box[g].teams > 0))

\* C14 witness: a finished game with complete box scores is flagged.
C14_Witness ==
    /\ boxscore_data_finalized["g1"] = 1
    /\ status["g1"] = 3
    /\ box["g1"].players = 16
    /\ box["g1"].minutes = <<239, 240>>

\* C15: when the box-score flag step evaluates a Final game that has no
\* PlayerBox and no TeamBox row, boxscore_data_finalized is False afterwards
\* and BoxscoresValidator.validate on the games of the pass reports a
\* MISSING_PLAYER_BOX issue of severity critical whose count includes the game.
C15_FinalGameWithoutBoxRows ==
    [][ \A g \in Games :
          (UpdateBoxscoreData /\ BoxscoreSelected(g) /\ status[g] = 3
             /\ box'[g].players = 0 /\ box'[g].teams = 0) =>
              /\ boxscore_data_finalized'[g] = 0
              /\ \E issue \in BoxscoresValidator_validate(
                                   { x \in Games : BoxscoreSelected(x) }, status', box') :
                    /\ issue.check_id = "MISSING_PLAYER_BOX"
                    /\ issue.severity = "critical"
                    /\ issue.count =
                          Cardinality({ x \in Games : BoxscoreSelected(x) /\ status'[x] = 3
                                                      /\ box'[x].players = 0 })
                    /\ issue.count >= 1
      ]_vars

\* C15 witness: a box-score pass has fetched nothing for the Final game g1;
\* g1 is not flagged and the validator reports it.
C15_Witness ==
    /\ status["g1"] = 3
    /\ Has(boxscore_last_fetched_at["g1"])
    /\ box["g1"].players = 0
    /\ box["g1"].teams = 0
    /\ boxscore_data_finalized["g1"] = 0
    /\ Issue("MISSING_PLAYER_BOX", "critical", 1)
          \in BoxscoresValidator_validate({"g1"}, status, box)

\* A game before which neither of its teams has played.
SeasonOpener(g) ==
    ~\E p \in Games :
        /\ date_time_utc(p) < date_time_utc(g)
        /\ {home_team(p), away_team(p)} \cap {home_team(g), away_team(g)} # {}

PreGameSelected(g) ==
    NeedsPreGameData(g, status, pre_game_data_finalized, game_data_finalized,
                     boxscore_data_finalized)

\* C16: for a season opener update_pre_game_data sets pre_game_data_finalized
\* to 1 and stores an empty feature set, which FeaturesValidator reports as
\* one EMPTY_FEATURES issue of severity info and as nothing else.
C16_SeasonOpenerIsFinalizedEmpty ==
    [][ \A g \in Games :
          (UpdatePreGameData /\ PreGameSelected(g) /\ SeasonOpener(g)) =>
              /\ pre_game_data_finalized'[g] = 1
              /\ features'[g] = Present(0)
              /\ FeaturesValidator_validate({g}, status', game_data_finalized',
                                            pre_game_data_finalized', features')
                    = { Issue("EMPTY_FEATURES", "info", 1) }
      ]_vars

\* C16 witness: the opener g1 is finalized with an empty feature set and the
\* validator reports it as info.
C16_Witness ==
    /\ SeasonOpener("g1")
    /\ pre_game_data_finalized["g1"] = 1
    /\ features["g1"] = Present(0)
    /\ FeaturesValidator_validate({"g1"}, status, game_data_finalized,
                                  pre_game_data_finalized, features)
          = { Issue("EMPTY_FEATURES", "info", 1) }

(* ================= properties of the pipeline with faults ============= *)
\* C11: save_game_states writes each game in its own transaction: a game
\* whose write fails keeps its persisted states and its timestamp, every
\* other game passed with states has exactly those states persisted and its
\* timestamp set, and the call returns True iff no write failed.
C11_FailedWriteIsRolledBackAlone ==
    [][ (UpdateGameStateData \/ UpdateGameStateDataFailing) =>
          /\ \A g \in write_failed' :
                /\ gs'[g] = gs[g]
                /\ gamestates_last_created_at'[g] = gamestates_last_created_at[g]
          /\ \A g \in DOMAIN game_states' \ write_failed' :
                game_states'[g] # <<>> =>
                    /\ SameStates(gs'[g], game_states'[g])
                    /\ gamestates_last_created_at'[g] = Present(now)
          /\ (save_result' = Present(TRUE)) <=> (write_failed' = {})
      ]_vars

\* C11 witness: the write of g1 failed and g1 still has its earlier rows and
\* timestamp, the write of g2 in the same call was committed, and the call
\* returned False.
C11_Witness ==
    /\ write_failed = {"g1"}
    /\ save_result = Present(FALSE)
    /\ DOMAIN game_states = Games
    /\ gs["g1"] # <<>>
    /\ ~SameStates(gs["g1"], game_states["g1"])
    /\ gamestates_last_created_at["g1"] = Present(0)
    /\ game_states["g2"] # <<>>
    /\ SameStates(gs["g2"], game_states["g2"])
    /\ now > 0
    /\ gamestates_last_created_at["g2"] = Present(now)

\* An event list that create_game_states can read: every clock parses and
\* every event has an ordering field.
WellFormed(logs) ==
    \A i \in 1..Len(logs) :
        /\ Len(logs[i].clock) = 2
        /\ Has(logs[i].orderNumber) \/ Has(logs[i].actionId)

\* C12: a malformed game is contained to itself: every well-formed game of the
\* same create_game_states call receives its derived states, one per event
\* with a description, and unless its write or the marking query failed it is
\* saved, and flagged when it has a terminal state.
C12_MalformedGameIsContained ==
    \A g \in DOMAIN games_info :
        WellFormed(games_info[g].pbp_logs) =>
            /\ g \in DOMAIN game_states
            /\ Len(game_states[g]) = Cardinality(Surviving(g))
            /\ g \notin write_failed => SameStates(gs[g], game_states[g])
            /\ (g \notin write_failed /\ mark_failed = Absent
                  /\ FinalIndexes(game_states[g]) # {})
                  => game_data_finalized[g] = 1

\* C13: when the verification query of a marking step raises for a game, the
\* step sets no flag: the flags written before the failure are not committed.
C13_FailedVerificationSetsNoFlag ==
    [][ (UpdateGameStateDataMarkFails \/ UpdateBoxscoreDataMarkFails) =>
          \A g \in Games :
              /\ game_data_finalized'[g] = 1 => game_data_finalized[g] = 1
              /\ boxscore_data_finalized'[g] = 1 => boxscore_data_finalized[g] = 1
      ]_vars

\* C13 witness: the query raised for g2 after g1, whose rows written by the
\* same pass hold a terminal state, had been handled; g1 is not flagged.
C13_Witness ==
    /\ mark_failed = Present(<< "pbp", "g2" >>)
    /\ pbp["g1"] # <<>>
    /\ FinalRows(gs["g1"]) # {}
    /\ gamestates_last_created_at["g1"] = Present(now)
    /\ game_data_finalized["g1"] = 0

(* ================= properties of the selection queries ================ *)
\* What the staleness table reads of a game in each category.
PbpSelected(g) == g \in Val(pbp_selected)
BoxSelected(g) == g \in Val(box_selected)
PbpAge(g) == now - Val(pbp_last_fetched_at[g])
BoxAge(g) == now - Val(boxscore_last_fetched_at[g])

\* C17 (as stated): an In Progress game is selected for PBP and for box-score
\* re-fetch exactly when its last-fetch timestamp is absent or at least 5
\* minutes old, whatever its flag; a Not Started game is never selected.
C17_InProgressRefetchedAtFiveMinutes ==
    \A g \in Games :
        /\ Has(pbp_selected) =>
              /\ status[g] = 2 =>
                    (PbpSelected(g) <=>
                        (~Has(pbp_last_fetched_at[g]) \/ PbpAge(g) >= 5))
              /\ status[g] = 1 => ~PbpSelected(g)
        /\ Has(box_selected) =>
              /\ status[g] = 2 =>
                    (BoxSelected(g) <=>
                        (~Has(boxscore_last_fetched_at[g]) \/ BoxAge(g) >= 5))
              /\ status[g] = 1 => ~BoxSelected(g)

\* C17 (amended): an In Progress game is selected exactly when its last-fetch
\* timestamp is absent or more than 5 minutes old, whatever its flag; on a
\* database without the box-score timestamp column it is selected for box
\* scores exactly when its flag is 0 and it has no PlayerBox row; a Not
\* Started game is never selected.
C17_InProgressRefetchedAfterFiveMinutes ==
    \A g \in Games :
        /\ Has(pbp_selected) =>
              /\ status[g] = 2 =>
                    (PbpSelected(g) <=>
                        (~Has(pbp_last_fetched_at[g]) \/ PbpAge(g) > 5))
              /\ status[g] = 1 => ~PbpSelected(g)
        /\ Has(box_selected) =>
              /\ (status[g] = 2 /\ has_timestamp_column) =>
                    (BoxSelected(g) <=>
                        (~Has(boxscore_last_fetched_at[g]) \/ BoxAge(g) > 5))
              /\ (status[g] = 2 /\ ~has_timestamp_column) =>
                    (BoxSelected(g) <=>
                        (boxscore_data_finalized[g] = 0 /\ box[g].players = 0))
              /\ status[g] = 1 => ~BoxSelected(g)

\* C17 witness: an In Progress game fetched exactly 5 minutes ago is skipped
\* by the PBP selection although its flag is 0.
C17_Witness ==
    /\ Has(pbp_selected)
    /\ status["g1"] = 2
    /\ game_data_finalized["g1"] = 0
    /\ Has(pbp_last_fetched_at["g1"])
    /\ PbpAge("g1") = 5
    /\ ~PbpSelected("g1")

\* C18 (as stated): a Final game whose flag is 0 is selected when its last
\* fetch was at least 5 minutes ago or its timestamp is absent, and is
\* skipped whenever its last fetch was less than 5 minutes ago.
C18_UnflaggedFinalRefetchedAtFiveMinutes ==
    \A g \in Games :
        /\ (Has(pbp_selected) /\ status[g] = 3 /\ game_data_finalized[g] = 0) =>
              /\ (~Has(pbp_last_fetched_at[g]) \/ PbpAge(g) >= 5) => PbpSelected(g)
              /\ (Has(pbp_last_fetched_at[g]) /\ PbpAge(g) < 5) => ~PbpSelected(g)
        /\ (Has(box_selected) /\ status[g] = 3 /\ boxscore_data_finalized[g] = 0) =>
              /\ (~Has(boxscore_last_fetched_at[g]) \/ BoxAge(g) >= 5) => BoxSelected(g)
              /\ (Has(boxscore_last_fetched_at[g]) /\ BoxAge(g) < 5) => ~BoxSelected(g)

\* C18 (amended): a Final game whose flag is 0 is selected exactly when its
\* dependent table has no row for it, or its last fetch is recorded and more
\* than 5 minutes old.
C18_UnflaggedFinalRefetchedWhenEmptyOrOld ==
    \A g \in Games :
        /\ (Has(pbp_selected) /\ status[g] = 3 /\ game_data_finalized[g] = 0) =>
              (PbpSelected(g) <=>
                  \/ pbp[g] = <<>>
                  \/ Has(pbp_last_fetched_at[g]) /\ PbpAge(g) > 5)
        /\ (Has(box_selected) /\ status[g] = 3 /\ boxscore_data_finalized[g] = 0) =>
              (BoxSelected(g) <=>
                  \/ box[g].players = 0
                  \/ Has(boxscore_last_fetched_at[g]) /\ BoxAge(g) > 5)

\* C18 witness: an unflagged Final game fetched a minute ago that has no
\* PlayerBox row is selected for box scores again.
C18_Witness ==
    /\ Has(box_selected)
    /\ status["g1"] = 3
    /\ boxscore_data_finalized["g1"] = 0
    /\ Has(boxscore_last_fetched_at["g1"])
    /\ BoxAge("g1") = 1
    /\ box["g1"].players = 0
    /\ BoxSelected("g1")

\* C19: a Final game whose flag is 1 is selected exactly when its dependent
\* table (PbP_Logs for PBP, PlayerBox for box scores) has no row for it.
C19_FlaggedFinalBackfilledWhenEmpty ==
    \A g \in Games :
        /\ (Has(pbp_selected) /\ status[g] = 3 /\ game_data_finalized[g] = 1) =>
              (PbpSelected(g) <=> pbp[g] = <<>>)
        /\ (Has(box_selected) /\ status[g] = 3 /\ boxscore_data_finalized[g] = 1) =>
              (BoxSelected(g) <=> box[g].players = 0)

(* ==================== properties of the injury cache ================== *)
TodayCached == Has(injury_cache[today])
TodayCacheAge == now_utc - Val(injury_cache[today])

C21_CachedPastDateIsPermanent ==
    [][ UpdateInjuries =>
          \A d \in Days :
              (d < today /\ Has(injury_cache[d])) => d \notin Val(dates_fetched')
      ]_vars

ValidateCall ==
    ValidatePbp \/ ValidateGameStates \/ ValidateBoxscores \/ ValidateFeatures

\* C23: validate() of every validator, on any batch of game ids, leaves the
\* Games rows (status, flags, timestamps) and the PbP_Logs, GameStates,
\* PlayerBox, TeamBox, Features and Predictions tables as they were.
C23_ValidateIsReadOnly ==
    [][ ValidateCall =>
          /\ status' = status
          /\ game_data_finalized' = game_data_finalized
          /\ boxscore_data_finalized' = boxscore_data_finalized
          /\ pre_game_data_finalized' = pre_game_data_finalized
          /\ pbp_last_fetched_at' = pbp_last_fetched_at
          /\ gamestates_last_created_at' = gamestates_last_created_at
          /\ boxscore_last_fetched_at' = boxscore_last_fetched_at
          /\ pbp' = pbp
          /\ gs' = gs
          /\ box' = box
          /\ features' = features
          /\ season' = season
          /\ predictions' = predictions
      ]_vars

\* C23 witness: the PBP validator reported a fixable critical issue for a
\* flagged game, whose flag is still 1.
C23_Witness ==
    /\ Has(validated)
    /\ Val(validated).validator = "PBP"
    /\ "g1" \in Val(validated).game_ids
    /\ \E issue \in Val(validated).issues : issue.severity = "critical"
    /\ game_data_finalized["g1"] = 1

\* The (game_id, play_id) pairs stored more than once for the games of a batch.
StoredTwice(game_ids) ==
    { << g, p >> \in game_ids \X (1..MaxLen + 1) :
        \E i, j \in 1..Len(pbp[g]) :
            i # j /\ PlayId(pbp[g][i]) = p /\ PlayId(pbp[g][j]) = p }

DuplicatePlaysIssues ==
    { issue \in Val(validated).issues : issue.check_id = "DUPLICATE_PLAYS" }

\* C24: PbPValidator.validate reports one DUPLICATE_PLAYS issue, critical,
\* whose count is the number of (game_id, play_id) pairs stored more than once
\* for the validated games, and no such issue when there is no such pair.
C24_DuplicatePlaysCounted ==
    (Has(validated) /\ Val(validated).validator = "PBP") =>
        LET n == Cardinality(StoredTwice(Val(validated).game_ids))
        IN  DuplicatePlaysIssues =
                IF n > 0 THEN { Issue("DUPLICATE_PLAYS", "critical", n) } ELSE {}

\* C24 witness: a game holding two events with one play_id was validated and
\* the issue has count 1.
C24_Witness ==
    /\ Has(validated)
    /\ Val(validated).validator = "PBP"
    /\ Val(validated).game_ids = {"g1"}
    /\ Len(pbp["g1"]) = 2
    /\ PlayId(pbp["g1"][1]) = PlayId(pbp["g1"][2])
    /\ Issue("DUPLICATE_PLAYS", "critical", 1) \in Val(validated).issues

(* ===================== properties of the health check ================= *)
HasStatus(check_status) == \E i \in 1..Len(report) : report[i].status = check_status

\* C25: the exit code is 2 if any check result is critical, otherwise 1 if
\* any is a warning, otherwise 0, also for an empty report; the order of the
\* results and skipped checks make no difference.
C25_ExitCodeBySeverity ==
    Has(exit_code) =>
        Val(exit_code) = IF HasStatus("critical") THEN 2
                         ELSE IF HasStatus("warn") THEN 1
                         ELSE 0

\* C25 witness: a warning was added before a critical result and the code is 2.
C25_Witness ==
    /\ Len(report) = 2
    /\ report[1].status = "warn"
    /\ report[2].status = "critical"
    /\ exit_code = Present(2)

ResultOf(results, check_name) ==
    { results[i].status : i \in { k \in 1..Len(results) : results[k].check_name = check_name } }

C26_FixOnlyDemotesFlags ==
    [][ \A season_arg \in SeasonArguments :
          FixIssues(season_arg) =>
              /\ \A g \in Games :
                    /\ game_data_finalized'[g] # game_data_finalized[g] =>
                          /\ game_data_finalized[g] = 1
                          /\ game_data_finalized'[g] = 0
                          /\ season_arg = Present(season[g])
                          /\ \/ pbp[g] = <<>>
                             \/ \A i \in 1..Len(gs[g]) : gs[g][i].is_final_state # 1
                    /\ pre_game_data_finalized'[g] # pre_game_data_finalized[g] =>
                          /\ pre_game_data_finalized[g] = 1
                          /\ pre_game_data_finalized'[g] = 0
                          /\ season_arg = Present(season[g])
                          /\ features[g] = Absent
              /\ UNCHANGED << status, season, boxscore_data_finalized, pbp, gs, box,
                              features, predictions, pbp_last_fetched_at,
                              gamestates_last_created_at, boxscore_last_fetched_at >>
              /\ (Has(fixed) /\ Val(fixed).season = season_arg) =>
                    /\ Val(fixed').count = 0
                    /\ game_data_finalized' = game_data_finalized
                    /\ pre_game_data_finalized' = pre_game_data_finalized
      ]_vars

\* C26 witness: a fix for the season demoted both flags of g1, which has
\* neither play-by-play nor features, and left g2 of the earlier season, in
\* the same condition, flagged.
C26_Witness ==
    /\ fixed = Present([ season |-> Present(Season), count |-> 2 ])
    /\ season["g2"] = EarlierSeason
    /\ pbp["g1"] = <<>>
    /\ features["g1"] = Absent
    /\ game_data_finalized = [ g \in Games |-> IF g = "g1" THEN 0 ELSE 1 ]
    /\ pre_game_data_finalized = [ g \in Games |-> IF g = "g1" THEN 0 ELSE 1 ]

(* ====================== properties of the predictions ================= *)
\* C27: every game that has a Predictions row has pre_game_data_finalized = 1
\* and no game has two rows of one predictor; a prediction run writes a row
\* only for a game whose flag is 1, whose feature set is not empty and that
\* has no row of that predictor yet.
C27_PredictionsNeedPreGameData ==
    /\ [] (\A g \in Games : \A p \in Predictors :
              /\ predictions[g][p] > 0 => pre_game_data_finalized[g] = 1
              /\ predictions[g][p] <= 1)
    /\ [][ \A p \in Predictors :
             UpdatePredictionData(p) =>
                 \A g \in Games :
                     predictions'[g][p] # predictions[g][p] =>
                         /\ pre_game_data_finalized[g] = 1
                         /\ Has(features[g])
                         /\ Val(features[g]) > 0
                         /\ predictions[g][p] = 0
         ]_vars

\* C27 witness: both predictors predicted g2; the flagged g1, whose feature
\* set is empty, has no prediction, and a fix has run since.
C27_Witness ==
    /\ \A p \in Predictors : predictions["g2"][p] = 1 /\ predictions["g1"][p] = 0
    /\ pre_game_data_finalized = [ g \in Games |-> 1 ]
    /\ features["g1"] = Present(0)
    /\ Has(fixed)

(* ================== properties of the running score =================== *)
PreviousScore(states, i, field) == IF i = 1 THEN 0 ELSE states[i - 1][field]

ScoreTakenOrCarried(o, score, previous) ==
    score = IF Has(o) THEN ParseInt(Val(o)) ELSE previous

\* C29 (as stated): in either source shape, the score of every emitted state
\* is the score of its source event when the event has the score field, and
\* otherwise the score of the previous state (0 for the first state).
C29_ScoreTakenOrCarried ==
    \A g \in DOMAIN game_states :
        \A i \in 1..Len(game_states[g]) :
            LET st == game_states[g][i]
                e == SourceOf(g, st)
            IN  /\ ScoreTakenOrCarried(e.scoreHome, st.home_score,
                                       PreviousScore(game_states[g], i, "home_score"))
                /\ ScoreTakenOrCarried(e.scoreAway, st.away_score,
                                       PreviousScore(game_states[g], i, "away_score"))

(* =================== properties of the emitted order ================== *)
\* C30: create_game_states returns, for every game it is given, one state
\* for each event that has a description and none for the others, in
\* ascending order of (period, minus remaining seconds, sequence number); a
\* game with no event, or with none that has a description, gets the empty
\* list, whatever the other game of the call holds.
C30_OneStatePerDescribedEvent ==
    [][ CreateGameStatesCall =>
          \A g \in DOMAIN games_info :
              /\ g \in DOMAIN game_states'
              /\ Len(game_states'[g]) = Cardinality(Surviving(g))
              /\ \A e \in Surviving(g) :
                    \E i \in 1..Len(game_states'[g]) :
                        /\ game_states'[g][i].play_id = SeqNo(e)
                        /\ game_states'[g][i].period = e.period
                        /\ game_states'[g][i].clock = e.clock
              /\ \A i, j \in 1..Len(game_states'[g]) :
                    i < j => Before(SourceOf(g, game_states'[g][i]),
                                    SourceOf(g, game_states'[g][j]))
      ]_vars

\* C30 witness: the two described events of g1 came back in the reverse of
\* their arrival order, and g2, whose only event has no description, has the
\* empty list.
C30_Witness ==
    /\ DOMAIN game_states = Games
    /\ Len(game_states["g1"]) = 2
    /\ game_states["g1"][1].play_id = 2
    /\ game_states["g1"][2].play_id = 1
    /\ Len(games_info["g2"].pbp_logs) = 1
    /\ ~games_info["g2"].pbp_logs[1].description
    /\ game_states["g2"] = <<>>

(* =================== properties of the player totals ================== *)
\* The locals of the loop before and after an iteration, and its row.
Row == Val(loop).logs[Val(loop).i + 1]
PlayersBefore == Val(loop).objects[1]
PlayersAfter == Val(loop)'.objects[1]
Emitted == StateRead(Val(loop)', Val(loop).i + 1)

NamesPlayer(row) == Has(row.personId) /\ Val(row.personId) # 0 /\ Has(row.teamTricode)

PointsOf(row) == IF Has(row.pointsTotal) THEN row.pointsTotal ELSE row.description_points

Entries(players) == { e \in Sides \X PlayerIds : e[2] \in DOMAIN players[e[1]] }

\* C31: an iteration on an event that names a player leaves that player, on
\* one side, with the embedded point total if the event has one, and
\* otherwise with the total it had (0 if the entry is new); every other entry
\* keeps its name and points, no entry disappears, and the emitted state
\* holds the totals after the event.
C31_PointTotalIsSetNotAdded ==
    [][ ProcessEvent =>
          /\ Emitted.players_data = PlayersAfter
          /\ Entries(PlayersBefore) \subseteq Entries(PlayersAfter)
          /\ NamesPlayer(Row) =>
                \E t \in Sides :
                    LET id == Val(Row.personId)
                    IN  /\ << t, id >> \in Entries(PlayersAfter)
                        /\ PlayersAfter[t][id].points =
                              IF Has(PointsOf(Row)) THEN ParseInt(Val(PointsOf(Row)))
                              ELSE IF << t, id >> \in Entries(PlayersBefore)
                                   THEN PlayersBefore[t][id].points ELSE 0
                        /\ \A e \in Entries(PlayersBefore) \ { << t, id >> } :
                              PlayersAfter[e[1]][e[2]] = PlayersBefore[e[1]][e[2]]
                        /\ Entries(PlayersAfter) \subseteq
                              Entries(PlayersBefore) \cup { << t, id >> }
      ]_vars

\* C31 witness: player 7 of the home side, who had 1 point after the first
\* event, has 1 point, not 2, after a second event with the total 1, and is
\* in both emitted states.
C31_Witness ==
    /\ Has(loop)
    /\ Val(loop).i = 2
    /\ Val(loop).logs[2].personId = Present(7)
    /\ PointsOf(Val(loop).logs[2]) = Present(<<1>>)
    /\ StateRead(Val(loop), 1).players_data["home"] =
          [ id \in {7} |-> [ name |-> PlayerName(7), points |-> 1 ] ]
    /\ StateRead(Val(loop), 2).players_data["home"] =
          [ id \in {7} |-> [ name |-> PlayerName(7), points |-> 1 ] ]

\* C33 (as stated): an iteration on an event whose team code is neither the
\* home nor the away code of the game adds no player entry and changes no
\* player's points on either side.
C33_UnknownTeamCodeAttributesNoPlayer ==
    [][ ProcessEvent =>
          ((Has(Row.teamTricode)
               /\ Val(Row.teamTricode) \notin { home_team("g1"), away_team("g1") })
              => PlayersAfter = PlayersBefore)
      ]_vars

\* C34: an iteration of the loop leaves what every state emitted before it
\* reads as (scores, terminal marker, players_data) unchanged, and the state
\* it emits holds an object of its own.
C34_EmittedStatesAreSnapshots ==
    [][ ProcessEvent =>
          /\ \A k \in 1..Len(Val(loop).states) :
                StateRead(Val(loop)', k) = StateRead(Val(loop), k)
          /\ \A k \in 1..Len(Val(loop).states) :
                Val(loop)'.states[k].players_data
                    # Val(loop)'.states[Len(Val(loop).states) + 1].players_data
          /\ Val(loop)'.states[Len(Val(loop).states) + 1].players_data # 1
      ]_vars

\* C34 witness: the first state still reads player 7 at 0 points after the
\* second event gave the player 1 point.
C34_Witness ==
    /\ Has(loop)
    /\ Val(loop).i = 2
    /\ StateRead(Val(loop), 1).players_data["away"] =
          [ id \in {7} |-> [ name |-> PlayerName(7), points |-> 0 ] ]
    /\ StateRead(Val(loop), 2).players_data["away"] =
          [ id \in {7} |-> [ name |-> PlayerName(7), points |-> 1 ] ]

(* =================== properties of unparsable clocks ================== *)
HasUnparsableClock(logs) == \E i \in 1..Len(logs) : ClockRaises(logs[i])

\* C32 (as stated): a game with an event whose clock cannot be parsed still
\* gets its states from create_game_states, one per event with a description,
\* and within a period the states of such events come after the others.
C32_UnparsableClockSortsLast ==
    \A g \in DOMAIN games_info :
        HasUnparsableClock(games_info[g].pbp_logs) =>
            /\ g \in DOMAIN game_states
            /\ Len(game_states[g]) = Cardinality(Surviving(g))
            /\ \A i, j \in 1..Len(game_states[g]) :
                  (/\ game_states[g][i].period = game_states[g][j].period
                   /\ Len(game_states[g][i].clock) # 2
                   /\ Len(game_states[g][j].clock) = 2) => j < i

(* ================= properties of save_game_states' frame ============== *)
\* C35: a call of save_game_states changes no finalization flag and leaves
\* the GameStates rows and gamestates_last_created_at of every game that is
\* not in its argument as they were; whenever game_data_finalized of a game
\* goes from 0 to 1, a terminal row of the game was already committed and the
\* step writes no GameStates row.
C35_SaveWritesNoFlag ==
    /\ [][ SaveGameStatesCall =>
             /\ game_data_finalized' = game_data_finalized
             /\ boxscore_data_finalized' = boxscore_data_finalized
             /\ pre_game_data_finalized' = pre_game_data_finalized
             /\ \A g \in Games \ DOMAIN game_states' :
                   /\ gs'[g] = gs[g]
                   /\ gamestates_last_created_at'[g] = gamestates_last_created_at[g]
         ]_vars
    /\ [][ \A g \in Games :
             (game_data_finalized[g] = 0 /\ game_data_finalized'[g] = 1) =>
                 /\ HasFinalRow(gs[g])
                 /\ gs' = gs
         ]_vars

\* C35 witness: a call that held only g1 wrote its two rows, the second one
\* terminal, and stamped it; the flag of g1 was set by the marking afterwards;
\* g2 has no row and no stamp.
C35_Witness ==
    /\ DOMAIN game_states = {"g1"}
    /\ Len(gs["g1"]) = 2
    /\ HasFinalRow(gs["g1"])
    /\ Has(gamestates_last_created_at["g1"])
    /\ game_data_finalized["g1"] = 1
    /\ gs["g2"] = <<>>
    /\ gamestates_last_created_at["g2"] = Absent
    /\ game_data_finalized["g2"] = 0

(* ================== properties of the repeated passes ================= *)
\* The stored play-by-play of g has a game-end action as the last of its
\* events with a description, by ordering key.
StoredEndsGame(g) ==
    \E i \in 1..Len(pbp[g]) :
        /\ pbp[g][i].description
        /\ IsGameEnd(pbp[g][i])
        /\ \A j \in 1..Len(pbp[g]) :
              (j # i /\ pbp[g][j].description) => Before(pbp[g][j], pbp[g][i])

Finalized(g) == HasFinalRow(gs[g]) /\ game_data_finalized[g] = 1

C37_BoxscoreWriteFailureIsContained ==
    (Has(boxscore_result) /\ Has(box_failed)) =>
        \A g \in DOMAIN Val(boxscore_result) \ { Val(box_failed) } :
            /\ Val(boxscore_result)[g] # NoBox => box[g] = Val(boxscore_result)[g]
            /\ Has(boxscore_last_fetched_at[g])

(* ==================== properties of get_boxscores ===================== *)
\* C38: at most thread_pool_size (at most 8) fetches run at a time and no
\* fetch calls the stats endpoint more than twice; the map get_boxscores
\* returns has exactly the requested game ids, each with the records its own
\* fetch returned, or ([], []) when its fetch raised, in whatever order the
\* workers ran and completed.
C38_OneEntryPerRequestedGame ==
    Has(pool) =>
        /\ Cardinality(Running(Val(pool))) <= thread_pool_size
        /\ thread_pool_size <= 8
        /\ \A g \in Val(pool).game_ids : Val(pool).futures[g].stats_calls <= 2
        /\ DOMAIN Val(pool).results =
              { g \in Val(pool).game_ids : Val(pool).futures[g].at = "collected" }
        /\ Has(boxscore_result) =>
              /\ DOMAIN Val(boxscore_result) = Val(pool).game_ids
              /\ \A g \in Val(pool).game_ids :
                    /\ Val(boxscore_result)[g] = Val(Val(pool).futures[g].result)[2]
                    /\ Val(pool).futures[g].raised => Val(boxscore_result)[g] = NoBox

\* C38 witness: both games were requested; the fetch of g1 raised on the
\* stats endpoint and on its retry, the fetch of g2 returned a complete box
\* score; the returned map holds ([], []) for g1 and the records for g2.
C38_Witness ==
    /\ Has(pool)
    /\ Has(boxscore_result)
    /\ Val(pool).game_ids = Games
    /\ Val(pool).futures["g1"].raised
    /\ Val(pool).futures["g1"].stats_calls = 2
    /\ Val(boxscore_result)["g1"] = NoBox
    /\ Val(boxscore_result)["g2"] = CompleteBox

(* --------------------- the selection of pre-game work ------------------ *)
SelectedRow(g) == Val(games_table)[g]

\* An earlier game of the season the selection ran for, not postponed and of
\* the regular or post season, that shares a team with g and has an open flag.
OpenEarlierGame(g) ==
    \E e \in DOMAIN Val(games_table) :
        LET r == Val(games_table)[e]
        IN  /\ r.season = Val(pre_selected).season
            /\ r.season_type \in {"Regular Season", "Post Season"}
            /\ r.status_text # "PPD"
            /\ r.date_time_utc < SelectedRow(g).date_time_utc
            /\ {r.home_team, r.away_team}
                   \cap {SelectedRow(g).home_team, SelectedRow(g).away_team} # {}
            /\ (r.game_data_finalized = 0 \/ r.boxscore_data_finalized = 0)

\* C39: a Not Started, non-postponed game is selected for pre-game work only
\* if no earlier non-postponed Regular/Post Season game of the same season
\* with one of its teams has game_data_finalized = 0 or
\* boxscore_data_finalized = 0; an In Progress or Final game is selected only
\* if its own game_data_finalized is 1; a game whose pre_game_data_finalized
\* is 1 is never selected.
C39_PreGameSelectionWaitsForEarlierGames ==
    Has(pre_selected) =>
        \A g \in Val(pre_selected).game_ids :
            /\ SelectedRow(g).pre_game_data_finalized = 0
            /\ SelectedRow(g).status \in {2, 3} => SelectedRow(g).game_data_finalized = 1
            /\ (SelectedRow(g).status = 1 /\ SelectedRow(g).status_text # "PPD")
                   => ~OpenEarlierGame(g)

\* A Not Started g2 is selected although the earlier g1 with the same home
\* team has an open flag, because g1 is postponed; g1 is not selected.
C39_Witness ==
    /\ Has(pre_selected)
    /\ Val(pre_selected).game_ids = {"g2"}
    /\ SelectedRow("g2").status = 1
    /\ SelectedRow("g2").home_team = "BOS"
    /\ SelectedRow("g1").date_time_utc = 1
    /\ SelectedRow("g1").season = Val(pre_selected).season
    /\ SelectedRow("g1").season_type = "Regular Season"
    /\ SelectedRow("g1").status_text = "PPD"
    /\ SelectedRow("g1").game_data_finalized = 0

(* ------------------ the unique index of InjuryReports ------------------ *)
RowsOfKey(rows, key) == { i \in DOMAIN rows : SemanticKey(rows[i]) = key }

\* C40 (as stated): after _ensure_injury_unique_constraint every key that had
\* a row keeps exactly one row: one with an nba_player_id if the key had such
\* a row, otherwise its first row; no key loses all of its rows.
C40_EveryKeyKeepsOneRow ==
    (Has(injury_table) /\ Has(Val(injury_table).before)) =>
        LET before == Val(Val(injury_table).before)
            after  == Val(injury_table).rows
        IN  \A i \in DOMAIN before :
               LET was == RowsOfKey(before, SemanticKey(before[i]))
                   is  == RowsOfKey(after, SemanticKey(before[i]))
               IN  /\ Cardinality(is) = 1
                   /\ is \subseteq was
                   /\ \A k \in is :
                         /\ after[k] = before[k]
                         /\ (\E w \in was : Has(before[w].nba_player_id))
                                => Has(after[k].nba_player_id)
                         /\ (\A w \in was : ~Has(before[w].nba_player_id))
                                => k = Min(was)

====
